---------------------------- MODULE Spec2Model ----------------------------
(***************************************************************************)
(* Access-control model of the Niquel backend (FastAPI + SQLAlchemy).      *)
(*                                                                         *)
(* The state is the content of the database tables (user, project,         *)
(* user_assignment, period, file, geo_point, geo_point_image), the set of   *)
(* objects on disk under UPLOAD_DIR, and the answer to the last request.   *)
(* Every request handler of app/api/routes is one action: the handler runs *)
(* in one database session and the model takes it as one step.             *)
(*                                                                         *)
(* Rows keep the columns that a handler reads to decide, or that a handler *)
(* writes from its payload and a later decision depends on; names, dates,  *)
(* sizes, timestamps and the audit columns (assigned_by, created_by,       *)
(* uploaded_by) are left out.  Identifiers are UUIDs in the program; here   *)
(* they are drawn from counters, so an identifier is never used twice.     *)
(***************************************************************************)
EXTENDS Integers, FiniteSets, Sequences, TLC

VARIABLES users, projects, assignments, periods, files, geo_points,
          geo_point_images, disk, next_id, last, pending, page

vars == <<users, projects, assignments, periods, files, geo_points,
          geo_point_images, disk, next_id, last, pending, page>>

store == <<users, projects, assignments, periods, files, geo_points,
           geo_point_images, disk, next_id>>

-----------------------------------------------------------------------------
(* Bounds of the model: how many rows of each table are ever created.      *)
MaxProjects == 2
MaxAssignments == 2
MaxPeriods == 2
MaxFiles == 1
MaxGeoPoints == 2
MaxImages == 1
MaxUploads == 2
MaxRegistrations == 1
MaxSkip == 2
MaxLimit == 2
MaxBatch == 2
MaxPending == 2

(* None: an absent optional identifier (Optional[UUID] = None).            *)
NULL == 0

UserIds == {"u1", "u2", "u3", "u4"}
GlobalRoles == {"admin", "manager", "regular"}
AssignmentRoles == {"viewer", "editor", "admin"}

ProjectIds == 1..MaxProjects
AssignmentIds == 1..MaxAssignments
PeriodIds == 1..MaxPeriods
FileIds == 1..MaxFiles
GeoPointIds == 1..MaxGeoPoints
ImageIds == 1..MaxImages

(* HTTP status codes of the answers.                                       *)
HTTP_200_OK == 200
HTTP_201_CREATED == 201
HTTP_204_NO_CONTENT == 204
HTTP_400_BAD_REQUEST == 400
HTTP_401_UNAUTHORIZED == 401
HTTP_403_FORBIDDEN == 403
HTTP_404_NOT_FOUND == 404
HTTP_409_CONFLICT == 409
(* An exception no handler catches (a foreign key the database refuses).   *)
HTTP_500_INTERNAL_SERVER_ERROR == 500

-----------------------------------------------------------------------------
(* The answer to a request: the handler, the token's subject and the       *)
(* status code.                                                            *)
Response(op, user, status) ==
    [op |-> op, user |-> user, status |-> status]

(* The body of the last answer when it was a list, with the offset the    *)
(* request asked for; NoPage otherwise.                                    *)
NoPage ==
    [skip |-> 0,
     body |-> [items |-> <<>>, total |-> 0, page |-> 0, page_size |-> 0, pages |-> 0]]

(* A request is answered; the requests of other clients that are between   *)
(* two awaits (pending) stay where they are.                               *)
Answer(op, user, status) ==
    /\ last' = Response(op, user, status)
    /\ page' = NoPage
    /\ UNCHANGED pending

(* The rows of a query in the order of its ORDER BY: integer identifiers   *)
(* stand for the sort key.                                                 *)
RECURSIVE Ordered(_)
Ordered(S) ==
    IF S = {} THEN <<>>
    ELSE LET x == CHOOSE x \in S : \A y \in S : x <= y
         IN <<x>> \o Ordered(S \ {x})

(* query.offset(skip).limit(limit) for skip >= 0 and limit >= 0.           *)
Slice(rows, skip, limit) ==
    SubSeq(rows, skip + 1, IF skip + limit < Len(rows) THEN skip + limit ELSE Len(rows))

(* The body every list handler returns.                                    *)
Paginated(rows, skip, limit) ==
    [items |-> Slice(rows, skip, limit),
     total |-> Len(rows),
     page |-> IF limit > 0 THEN (skip \div limit) + 1 ELSE 1,
     page_size |-> limit,
     pages |-> IF limit > 0 THEN (Len(rows) + limit - 1) \div limit ELSE 1]

(* A list request is answered: the status of the handler's checks when     *)
(* they refuse; the database's error for a negative LIMIT, which no        *)
(* handler catches; else the page.                                         *)
AnswerPage(op, user, status, rows, skip, limit) ==
    IF status # HTTP_200_OK THEN Answer(op, user, status)
    ELSE IF limit < 0 THEN Answer(op, user, HTTP_500_INTERNAL_SERVER_ERROR)
    ELSE /\ last' = Response(op, user, HTTP_200_OK)
         /\ page' = [skip |-> skip, body |-> Paginated(rows, skip, limit)]
         /\ UNCHANGED pending

(* A bearer token is its subject, or MALFORMED when jwt.decode refuses it  *)
(* (bad signature, expired, no subject).                                   *)
MALFORMED == "malformed"

Tokens == UserIds \cup {MALFORMED}

(* Mutant: the is_active flag is not looked at.                            *)
get_current_user_ignores_is_active(sub) ==
    /\ sub # MALFORMED
    /\ sub \in DOMAIN users

(* deps.get_current_user: the token's subject must name an active user.    *)
get_current_user(sub) ==
    /\ sub # MALFORMED
    /\ sub \in DOMAIN users
    /\ users[sub].is_active

-----------------------------------------------------------------------------
(* The access-control policy: routes/projects.py                           *)

(* Mutant: the View tier asks for a viewer row only.                       *)
check_project_access_viewer_only(project_id, user) ==
    IF users[user].role = "admin" THEN TRUE
    ELSE IF project_id \in DOMAIN projects /\ projects[project_id].owner_id = user
         THEN TRUE
    ELSE \E a \in DOMAIN assignments :
            /\ assignments[a].project_id = project_id
            /\ assignments[a].user_id = user
            /\ assignments[a].role = "viewer"

check_project_access(project_id, user) ==
    IF users[user].role = "admin" THEN TRUE
    ELSE IF project_id \in DOMAIN projects /\ projects[project_id].owner_id = user
         THEN TRUE
    ELSE \E a \in DOMAIN assignments :
            /\ assignments[a].project_id = project_id
            /\ assignments[a].user_id = user

(* Mutant: the Edit tier forgets the filter on the role.                   *)
check_project_edit_access_any_role(project_id, user) ==
    IF users[user].role = "admin" THEN TRUE
    ELSE IF project_id \in DOMAIN projects /\ projects[project_id].owner_id = user
         THEN TRUE
    ELSE \E a \in DOMAIN assignments :
            /\ assignments[a].project_id = project_id
            /\ assignments[a].user_id = user

check_project_edit_access(project_id, user) ==
    IF users[user].role = "admin" THEN TRUE
    ELSE IF project_id \in DOMAIN projects /\ projects[project_id].owner_id = user
         THEN TRUE
    ELSE \E a \in DOMAIN assignments :
            /\ assignments[a].project_id = project_id
            /\ assignments[a].user_id = user
            /\ assignments[a].role \in {"editor", "admin"}

(* Mutant: the row of the pair is consulted before the ownership.          *)
check_project_admin_access_row_first(project_id, user) ==
    IF users[user].role = "admin" THEN TRUE
    ELSE IF \E a \in DOMAIN assignments :
               /\ assignments[a].project_id = project_id
               /\ assignments[a].user_id = user
         THEN \E a \in DOMAIN assignments :
                 /\ assignments[a].project_id = project_id
                 /\ assignments[a].user_id = user
                 /\ assignments[a].role = "admin"
    ELSE project_id \in DOMAIN projects /\ projects[project_id].owner_id = user

check_project_admin_access(project_id, user) ==
    IF users[user].role = "admin" THEN TRUE
    ELSE IF project_id \in DOMAIN projects /\ projects[project_id].owner_id = user
         THEN TRUE
    ELSE \E a \in DOMAIN assignments :
            /\ assignments[a].project_id = project_id
            /\ assignments[a].user_id = user
            /\ assignments[a].role = "admin"


-----------------------------------------------------------------------------
(* Helpers on tables (a table is a function from the ids of its rows).     *)

Restrict(f, S) == [x \in S |-> f[x]]

Insert(f, id, row) == [x \in DOMAIN f \cup {id} |-> IF x = id THEN row ELSE f[x]]

(* A fresh UUID of a table: the table's counter, never handed out twice.   *)
CanCreate(table, max) == next_id[table] <= max

Bump(table) == [next_id EXCEPT ![table] = @ + 1]

(* The ORM's cascade="all, delete-orphan" relationships.                   *)
(* Period.files and Period.geo_points, GeoPoint.images.                    *)
CascadeGeoPoints(gs) ==
    {i \in DOMAIN geo_point_images : geo_point_images[i].geo_point_id \in gs}

CascadePeriods(ps) ==
    [files |-> {f \in DOMAIN files : files[f].period_id \in ps},
     geo_points |-> {g \in DOMAIN geo_points : geo_points[g].period_id \in ps}]

(* Project.periods, Project.files and Project.user_assignments.            *)
CascadeProject(p) ==
    LET ps == {x \in DOMAIN periods : periods[x].project_id = p}
        gs == CascadePeriods(ps).geo_points
    IN [periods |-> ps,
        files |-> {f \in DOMAIN files : files[f].project_id = p}
                    \cup CascadePeriods(ps).files,
        geo_points |-> gs,
        geo_point_images |-> CascadeGeoPoints(gs),
        assignments |-> {a \in DOMAIN assignments : assignments[a].project_id = p}]

-----------------------------------------------------------------------------
(* routes/projects.py                                                      *)

ProjectStatuses == {"Planificacion", "En progreso"}
UNSET == "UNSET"

(* A field of a JSON payload is absent, or present with null (None), or    *)
(* present with a value.  Field reads it as the pydantic model does, with  *)
(* the schema's default for an absent field; Stored is what setattr puts   *)
(* in the column.                                                          *)
None == <<>>

Some(v) == <<v>>

Field(data, field, default) == IF field \in DOMAIN data THEN data[field] ELSE default

Stored(value) == IF value = None THEN NULL ELSE value[1]

(* POST /projects: the current user becomes the owner.                     *)
create_project(u, status) ==
    /\ CanCreate("project", MaxProjects)
    /\ IF ~get_current_user(u)
       THEN /\ Answer("create_project", u, HTTP_401_UNAUTHORIZED)
            /\ UNCHANGED store
       ELSE LET id == next_id.project
            IN /\ projects' = Insert(projects, id,
                     [owner_id |-> u,
                      status |-> IF status = UNSET THEN "Planificacion" ELSE status])
               /\ next_id' = Bump("project")
               /\ Answer("create_project", u, HTTP_201_CREATED)
               /\ UNCHANGED <<users, assignments, periods, files, geo_points,
                              geo_point_images, disk>>

(* GET /projects: the status filter when given (the type filter works the *)
(* same way on a column left out here); admins and managers get every      *)
(* project, others the projects they own or have a row on.                 *)
get_projects_response(u) ==
    IF ~get_current_user(u) THEN HTTP_401_UNAUTHORIZED ELSE HTTP_200_OK

get_projects_items(u, status) ==
    {p \in DOMAIN projects :
        /\ status # UNSET => projects[p].status = status
        /\ \/ users[u].role \in {"admin", "manager"}
           \/ projects[p].owner_id = u
           \/ \E a \in DOMAIN assignments : /\ assignments[a].user_id = u
                                           /\ assignments[a].project_id = p}

get_projects(u, status, skip, limit) ==
    /\ AnswerPage("get_projects", u, get_projects_response(u),
                  Ordered(get_projects_items(u, status)), skip, limit)
    /\ UNCHANGED store

(* GET /projects/{project_id}: the policy is asked before the row is read. *)
get_project_response(u, project_id) ==
    IF ~get_current_user(u) THEN HTTP_401_UNAUTHORIZED
    ELSE IF ~check_project_access(project_id, u) THEN HTTP_403_FORBIDDEN
    ELSE IF project_id \notin DOMAIN projects THEN HTTP_404_NOT_FOUND
    ELSE HTTP_200_OK

get_project(u, project_id) ==
    /\ Answer("get_project", u, get_project_response(u, project_id))
    /\ UNCHANGED store

(* PUT /projects/{project_id}: only the fields the payload carries.        *)
update_project_response(u, project_id) ==
    IF ~get_current_user(u) THEN HTTP_401_UNAUTHORIZED
    ELSE IF ~check_project_edit_access(project_id, u) THEN HTTP_403_FORBIDDEN
    ELSE IF project_id \notin DOMAIN projects THEN HTTP_404_NOT_FOUND
    ELSE HTTP_200_OK

(* Mutant: the update hands the project to the requester.                  *)
update_project_takes_ownership(u, project_id, status) ==
    LET code == update_project_response(u, project_id)
    IN /\ Answer("update_project", u, code)
       /\ IF code = HTTP_200_OK
          THEN /\ projects' = [projects EXCEPT ![project_id].owner_id = u]
               /\ UNCHANGED <<users, assignments, periods, files, geo_points,
                              geo_point_images, disk, next_id>>
          ELSE UNCHANGED store

update_project(u, project_id, status) ==
    LET code == update_project_response(u, project_id)
    IN /\ Answer("update_project", u, code)
       /\ IF code = HTTP_200_OK /\ status # UNSET
          THEN /\ projects' = [projects EXCEPT ![project_id].status = status]
               /\ UNCHANGED <<users, assignments, periods, files, geo_points,
                              geo_point_images, disk, next_id>>
          ELSE UNCHANGED store

(* DELETE /projects/{project_id}: db.delete(project) and the cascades.     *)
(* Mutant: the Edit tier is enough to delete a project.                    *)
delete_project_response_edit_tier(u, project_id) ==
    IF ~get_current_user(u) THEN HTTP_401_UNAUTHORIZED
    ELSE IF ~check_project_edit_access(project_id, u) THEN HTTP_403_FORBIDDEN
    ELSE IF project_id \notin DOMAIN projects THEN HTTP_404_NOT_FOUND
    ELSE HTTP_204_NO_CONTENT

delete_project_response(u, project_id) ==
    IF ~get_current_user(u) THEN HTTP_401_UNAUTHORIZED
    ELSE IF ~check_project_admin_access(project_id, u) THEN HTTP_403_FORBIDDEN
    ELSE IF project_id \notin DOMAIN projects THEN HTTP_404_NOT_FOUND
    ELSE HTTP_204_NO_CONTENT

delete_project(u, project_id) ==
    LET code == delete_project_response(u, project_id)
        c == CascadeProject(project_id)
    IN /\ Answer("delete_project", u, code)
       /\ IF code = HTTP_204_NO_CONTENT
          THEN /\ projects' = Restrict(projects, DOMAIN projects \ {project_id})
               /\ periods' = Restrict(periods, DOMAIN periods \ c.periods)
               /\ files' = Restrict(files, DOMAIN files \ c.files)
               /\ geo_points' = Restrict(geo_points, DOMAIN geo_points \ c.geo_points)
               /\ geo_point_images' = Restrict(geo_point_images,
                                         DOMAIN geo_point_images \ c.geo_point_images)
               /\ assignments' = Restrict(assignments,
                                         DOMAIN assignments \ c.assignments)
               /\ UNCHANGED <<users, disk, next_id>>
          ELSE UNCHANGED store

-----------------------------------------------------------------------------
(* routes/assignments.py                                                   *)

(* select(UserAssignment).where(user_id == ..., project_id == ...)         *)
AssignmentsOf(user_id, project_id) ==
    {a \in DOMAIN assignments : /\ assignments[a].user_id = user_id
                                /\ assignments[a].project_id = project_id}

(* GET /projects/{project_id}/assignments                                  *)
get_project_assignments_response(u, project_id) ==
    IF ~get_current_user(u) THEN HTTP_401_UNAUTHORIZED
    ELSE IF ~check_project_admin_access(project_id, u) THEN HTTP_403_FORBIDDEN
    ELSE HTTP_200_OK

get_project_assignments(u, project_id, skip, limit) ==
    /\ AnswerPage("get_project_assignments", u,
                  get_project_assignments_response(u, project_id),
                  Ordered({a \in DOMAIN assignments :
                              assignments[a].project_id = project_id}),
                  skip, limit)
    /\ UNCHANGED store

(* POST /projects/{project_id}/assignments: update the existing row of the *)
(* pair, or insert one (the insert needs the project row: foreign key).    *)
assign_user_to_project_response(u, project_id, user_id) ==
    IF ~get_current_user(u) THEN HTTP_401_UNAUTHORIZED
    ELSE IF ~check_project_admin_access(project_id, u) THEN HTTP_403_FORBIDDEN
    ELSE IF user_id \notin DOMAIN users THEN HTTP_404_NOT_FOUND
    ELSE IF AssignmentsOf(user_id, project_id) # {} THEN HTTP_201_CREATED
    ELSE IF project_id \notin DOMAIN projects THEN HTTP_500_INTERNAL_SERVER_ERROR
    ELSE HTTP_201_CREATED

(* Mutant: the row of the pair is not looked for; a row is always added.   *)
assign_user_to_project_always_inserts(u, project_id, user_id, role) ==
    LET code == assign_user_to_project_response(u, project_id, user_id)
    IN /\ Answer("assign_user_to_project", u, code)
       /\ IF code # HTTP_201_CREATED
          THEN UNCHANGED store
          ELSE /\ CanCreate("assignment", MaxAssignments)
               /\ assignments' = Insert(assignments, next_id.assignment,
                     [user_id |-> user_id, project_id |-> project_id, role |-> role])
               /\ next_id' = Bump("assignment")
               /\ UNCHANGED <<users, projects, periods, files, geo_points,
                              geo_point_images, disk>>

assign_user_to_project(u, project_id, user_id, role) ==
    LET code == assign_user_to_project_response(u, project_id, user_id)
        existing == AssignmentsOf(user_id, project_id)
    IN /\ Answer("assign_user_to_project", u, code)
       /\ IF code # HTTP_201_CREATED
          THEN UNCHANGED store
          ELSE IF existing # {}
          THEN /\ \E a \in existing :
                     assignments' = [assignments EXCEPT ![a].role = role]
               /\ UNCHANGED <<users, projects, periods, files, geo_points,
                              geo_point_images, disk, next_id>>
          ELSE /\ CanCreate("assignment", MaxAssignments)
               /\ assignments' = Insert(assignments, next_id.assignment,
                     [user_id |-> user_id, project_id |-> project_id, role |-> role])
               /\ next_id' = Bump("assignment")
               /\ UNCHANGED <<users, projects, periods, files, geo_points,
                              geo_point_images, disk>>

(* The same handler cut at its awaits, for requests that run together:     *)
(* everything up to the SELECT of the pair's row, then (another request    *)
(* may run in between) db.add and commit.  A row that is found is updated  *)
(* at once.                                                                *)
RemoveAt(seq, i) == [k \in 1..(Len(seq) - 1) |-> IF k < i THEN seq[k] ELSE seq[k + 1]]

assign_user_to_project_lookup(u, project_id, user_id, role) ==
    LET code == assign_user_to_project_response(u, project_id, user_id)
        existing == AssignmentsOf(user_id, project_id)
    IN IF code \in {HTTP_401_UNAUTHORIZED, HTTP_403_FORBIDDEN, HTTP_404_NOT_FOUND}
       THEN /\ Answer("assign_user_to_project", u, code)
            /\ UNCHANGED store
       ELSE IF existing # {}
       THEN /\ \E a \in existing :
                  assignments' = [assignments EXCEPT ![a].role = role]
            /\ Answer("assign_user_to_project", u, HTTP_201_CREATED)
            /\ UNCHANGED <<users, projects, periods, files, geo_points,
                           geo_point_images, disk, next_id>>
       ELSE /\ Len(pending) < MaxPending
            /\ pending' = Append(pending,
                  [by |-> u, user_id |-> user_id, project_id |-> project_id,
                   role |-> role])
            /\ UNCHANGED <<store, last, page>>

assign_user_to_project_commit(i) ==
    LET new_assignment == pending[i]
    IN /\ pending' = RemoveAt(pending, i)
       /\ page' = NoPage
       /\ IF new_assignment.project_id \notin DOMAIN projects
             \/ new_assignment.user_id \notin DOMAIN users
          THEN /\ last' = Response("assign_user_to_project", new_assignment.by,
                                   HTTP_500_INTERNAL_SERVER_ERROR)
               /\ UNCHANGED store
          ELSE /\ CanCreate("assignment", MaxAssignments)
               /\ assignments' = Insert(assignments, next_id.assignment,
                     [user_id |-> new_assignment.user_id,
                      project_id |-> new_assignment.project_id,
                      role |-> new_assignment.role])
               /\ next_id' = Bump("assignment")
               /\ last' = Response("assign_user_to_project", new_assignment.by,
                                   HTTP_201_CREATED)
               /\ UNCHANGED <<users, projects, periods, files, geo_points,
                              geo_point_images, disk>>

(* PUT /assignments/{assignment_id}                                        *)
(* Mutant: the Edit tier is enough to update a row.                        *)
update_assignment_response_edit_tier(u, assignment_id) ==
    IF ~get_current_user(u) THEN HTTP_401_UNAUTHORIZED
    ELSE IF assignment_id \notin DOMAIN assignments THEN HTTP_404_NOT_FOUND
    ELSE IF ~check_project_edit_access(assignments[assignment_id].project_id, u)
         THEN HTTP_403_FORBIDDEN
    ELSE HTTP_200_OK

update_assignment_response(u, assignment_id) ==
    IF ~get_current_user(u) THEN HTTP_401_UNAUTHORIZED
    ELSE IF assignment_id \notin DOMAIN assignments THEN HTTP_404_NOT_FOUND
    ELSE IF ~check_project_admin_access(assignments[assignment_id].project_id, u)
         THEN HTTP_403_FORBIDDEN
    ELSE HTTP_200_OK

update_assignment(u, assignment_id, role) ==
    LET code == update_assignment_response(u, assignment_id)
    IN /\ Answer("update_assignment", u, code)
       /\ IF code = HTTP_200_OK /\ role # UNSET
          THEN /\ assignments' = [assignments EXCEPT ![assignment_id].role = role]
               /\ UNCHANGED <<users, projects, periods, files, geo_points,
                              geo_point_images, disk, next_id>>
          ELSE UNCHANGED store

(* DELETE /assignments/{assignment_id}                                     *)
delete_assignment_response(u, assignment_id) ==
    IF ~get_current_user(u) THEN HTTP_401_UNAUTHORIZED
    ELSE IF assignment_id \notin DOMAIN assignments THEN HTTP_404_NOT_FOUND
    ELSE IF ~check_project_admin_access(assignments[assignment_id].project_id, u)
         THEN HTTP_403_FORBIDDEN
    ELSE HTTP_204_NO_CONTENT

delete_assignment(u, assignment_id) ==
    LET code == delete_assignment_response(u, assignment_id)
    IN /\ Answer("delete_assignment", u, code)
       /\ IF code = HTTP_204_NO_CONTENT
          THEN /\ assignments' = Restrict(assignments,
                                          DOMAIN assignments \ {assignment_id})
               /\ UNCHANGED <<users, projects, periods, files, geo_points,
                              geo_point_images, disk, next_id>>
          ELSE UNCHANGED store

(* POST /projects/{project_id}/batch-assign: one lookup, one insert or     *)
(* update and one commit per listed user; unknown users are skipped.       *)
(* The loop's state: the table, the next fresh id, the rows returned so    *)
(* far, and whether an insert was refused by the database.                 *)
BatchStep_unknown_user_fails(st, project_id, user_id, role) ==
    LET existing == {a \in DOMAIN st.table :
                        /\ st.table[a].user_id = user_id
                        /\ st.table[a].project_id = project_id}
    IN IF st.failed THEN {st}
       ELSE IF user_id \notin DOMAIN users THEN {[st EXCEPT !.failed = TRUE]}
       ELSE IF existing # {}
       THEN {[st EXCEPT !.table = [st.table EXCEPT ![a].role = role],
                        !.result = Append(st.result, a)] : a \in existing}
       ELSE IF project_id \notin DOMAIN projects
       THEN {[st EXCEPT !.failed = TRUE]}
       ELSE {[st EXCEPT !.table = Insert(st.table, st.next,
                            [user_id |-> user_id, project_id |-> project_id,
                             role |-> role]),
                        !.next = st.next + 1,
                        !.result = Append(st.result, st.next)]}

BatchStep(st, project_id, user_id, role) ==
    LET existing == {a \in DOMAIN st.table :
                        /\ st.table[a].user_id = user_id
                        /\ st.table[a].project_id = project_id}
    IN IF st.failed \/ user_id \notin DOMAIN users THEN {st}
       ELSE IF existing # {}
       THEN {[st EXCEPT !.table = [st.table EXCEPT ![a].role = role],
                        !.result = Append(st.result, a)] : a \in existing}
       ELSE IF project_id \notin DOMAIN projects
       THEN {[st EXCEPT !.failed = TRUE]}
       ELSE {[st EXCEPT !.table = Insert(st.table, st.next,
                            [user_id |-> user_id, project_id |-> project_id,
                             role |-> role]),
                        !.next = st.next + 1,
                        !.result = Append(st.result, st.next)]}

RECURSIVE BatchLoop(_, _, _, _)
BatchLoop(sts, project_id, user_ids, role) ==
    IF user_ids = <<>> THEN sts
    ELSE BatchLoop(UNION {BatchStep(st, project_id, Head(user_ids), role) : st \in sts},
                   project_id, Tail(user_ids), role)

(* The checks before the loop; 201 stands for "the loop is entered".       *)
batch_assign_users_response(u, project_id, body_project_id) ==
    IF ~get_current_user(u) THEN HTTP_401_UNAUTHORIZED
    ELSE IF ~check_project_admin_access(project_id, u) THEN HTTP_403_FORBIDDEN
    ELSE IF body_project_id # project_id THEN HTTP_400_BAD_REQUEST
    ELSE HTTP_201_CREATED

batch_assign_users(u, project_id, body_project_id, user_ids, role) ==
    LET code == batch_assign_users_response(u, project_id, body_project_id)
    IN IF code # HTTP_201_CREATED
       THEN /\ Answer("batch_assign_users", u, code)
            /\ UNCHANGED store
       ELSE \E st \in BatchLoop({[table |-> assignments, next |-> next_id.assignment,
                                  result |-> <<>>, failed |-> FALSE]},
                                project_id, user_ids, role) :
               /\ st.next <= MaxAssignments + 1
               /\ assignments' = st.table
               /\ next_id' = [next_id EXCEPT !.assignment = st.next]
               /\ Answer("batch_assign_users", u,
                                   IF st.failed THEN HTTP_500_INTERNAL_SERVER_ERROR
                                   ELSE HTTP_201_CREATED)
               /\ UNCHANGED <<users, projects, periods, files, geo_points,
                              geo_point_images, disk>>

-----------------------------------------------------------------------------
(* routes/periods.py                                                       *)

(* GET /projects/{project_id}/periods                                      *)
get_project_periods_response(u, project_id) ==
    IF ~get_current_user(u) THEN HTTP_401_UNAUTHORIZED
    ELSE IF ~check_project_access(project_id, u) THEN HTTP_403_FORBIDDEN
    ELSE HTTP_200_OK

get_project_periods(u, project_id, skip, limit) ==
    /\ AnswerPage("get_project_periods", u,
                  get_project_periods_response(u, project_id),
                  Ordered({x \in DOMAIN periods : periods[x].project_id = project_id}),
                  skip, limit)
    /\ UNCHANGED store

(* POST /projects/{project_id}/periods (the insert needs the project row). *)
create_period_response(u, project_id) ==
    IF ~get_current_user(u) THEN HTTP_401_UNAUTHORIZED
    ELSE IF ~check_project_edit_access(project_id, u) THEN HTTP_403_FORBIDDEN
    ELSE IF project_id \notin DOMAIN projects THEN HTTP_500_INTERNAL_SERVER_ERROR
    ELSE HTTP_201_CREATED

create_period(u, project_id, kml_file_id) ==
    LET code == create_period_response(u, project_id)
    IN /\ Answer("create_period", u, code)
       /\ IF code = HTTP_201_CREATED
          THEN /\ CanCreate("period", MaxPeriods)
               /\ periods' = Insert(periods, next_id.period,
                     [project_id |-> project_id, kml_file_id |-> kml_file_id,
                      volume |-> NULL])
               /\ next_id' = Bump("period")
               /\ UNCHANGED <<users, projects, assignments, files, geo_points,
                              geo_point_images, disk>>
          ELSE UNCHANGED store

(* DELETE /periods/{period_id}: the row is read before the policy is      *)
(* asked; the ORM removes the period's files and geo-points (and their     *)
(* images) with it, nothing on disk.                                       *)
delete_period_response_admin_tier(u, period_id) ==
    IF ~get_current_user(u) THEN HTTP_401_UNAUTHORIZED
    ELSE IF period_id \notin DOMAIN periods THEN HTTP_404_NOT_FOUND
    ELSE IF ~check_project_admin_access(periods[period_id].project_id, u)
         THEN HTTP_403_FORBIDDEN
    ELSE HTTP_204_NO_CONTENT

delete_period_response(u, period_id) ==
    IF ~get_current_user(u) THEN HTTP_401_UNAUTHORIZED
    ELSE IF period_id \notin DOMAIN periods THEN HTTP_404_NOT_FOUND
    ELSE IF ~check_project_edit_access(periods[period_id].project_id, u)
         THEN HTTP_403_FORBIDDEN
    ELSE HTTP_204_NO_CONTENT

delete_period(u, period_id) ==
    LET code == delete_period_response(u, period_id)
        c == CascadePeriods({period_id})
    IN /\ Answer("delete_period", u, code)
       /\ IF code = HTTP_204_NO_CONTENT
          THEN /\ periods' = Restrict(periods, DOMAIN periods \ {period_id})
               /\ files' = Restrict(files, DOMAIN files \ c.files)
               /\ geo_points' = Restrict(geo_points, DOMAIN geo_points \ c.geo_points)
               /\ geo_point_images' = Restrict(geo_point_images,
                     DOMAIN geo_point_images \ CascadeGeoPoints(c.geo_points))
               /\ UNCHANGED <<users, projects, assignments, disk, next_id>>
          ELSE UNCHANGED store

(* PUT /periods/{period_id}: every field of the payload is set on the row, *)
(* null included, except kml_file_id when it is null.                      *)
update_period_response(u, period_id) ==
    IF ~get_current_user(u) THEN HTTP_401_UNAUTHORIZED
    ELSE IF period_id \notin DOMAIN periods THEN HTTP_404_NOT_FOUND
    ELSE IF ~check_project_edit_access(periods[period_id].project_id, u)
         THEN HTTP_403_FORBIDDEN
    ELSE HTTP_200_OK

(* Mutant: a null kml_file_id is set like any other field.                 *)
update_period_clears_kml(u, period_id, period_data) ==
    LET code == update_period_response(u, period_id)
    IN /\ Answer("update_period", u, code)
       /\ IF code = HTTP_200_OK
          THEN /\ periods' = [periods EXCEPT ![period_id] =
                     [project_id |-> @.project_id,
                      volume |-> IF "volume" \in DOMAIN period_data
                                 THEN Stored(period_data.volume) ELSE @.volume,
                      kml_file_id |-> IF "kml_file_id" \in DOMAIN period_data
                                      THEN Stored(period_data.kml_file_id)
                                      ELSE @.kml_file_id]]
               /\ UNCHANGED <<users, projects, assignments, files, geo_points,
                              geo_point_images, disk, next_id>>
          ELSE UNCHANGED store

update_period(u, period_id, period_data) ==
    LET code == update_period_response(u, period_id)
    IN /\ Answer("update_period", u, code)
       /\ IF code = HTTP_200_OK
          THEN /\ periods' = [periods EXCEPT ![period_id] =
                     [project_id |-> @.project_id,
                      volume |-> IF "volume" \in DOMAIN period_data
                                 THEN Stored(period_data.volume) ELSE @.volume,
                      kml_file_id |-> IF "kml_file_id" \in DOMAIN period_data
                                         /\ period_data.kml_file_id # None
                                      THEN Stored(period_data.kml_file_id)
                                      ELSE @.kml_file_id]]
               /\ UNCHANGED <<users, projects, assignments, files, geo_points,
                              geo_point_images, disk, next_id>>
          ELSE UNCHANGED store

-----------------------------------------------------------------------------
(* routes/files.py                                                         *)

valid_categories == {"map", "image", "document", "analysis"}

(* GET /files: each filter that is given is checked, and only those.       *)
get_files_response(u, project_id, period_id) ==
    IF ~get_current_user(u) THEN HTTP_401_UNAUTHORIZED
    ELSE IF project_id # NULL /\ ~check_project_access(project_id, u)
         THEN HTTP_403_FORBIDDEN
    ELSE IF period_id # NULL /\ period_id \notin DOMAIN periods
         THEN HTTP_404_NOT_FOUND
    ELSE IF period_id # NULL
            /\ ~check_project_access(periods[period_id].project_id, u)
         THEN HTTP_403_FORBIDDEN
    ELSE HTTP_200_OK

(* The rows the query of GET /files selects (all on one page).             *)
get_files_items(project_id, period_id, category) ==
    {f \in DOMAIN files :
        /\ project_id # NULL => files[f].project_id = project_id
        /\ period_id # NULL => files[f].period_id = period_id
        /\ category # UNSET => files[f].category = category}

get_files(u, project_id, period_id, category, skip, limit) ==
    /\ AnswerPage("get_files", u, get_files_response(u, project_id, period_id),
                  Ordered(get_files_items(project_id, period_id, category)),
                  skip, limit)
    /\ UNCHANGED store

(* What becomes of the storage step of an upload: the content is over     *)
(* MAX_UPLOAD_SIZE (save_upload_file raises 413 before it opens the file), *)
(* or the write raises after open() created the file.                      *)
Faults == {"none", "too_large", "write_error"}

(* The directory create_upload_dir makes, named by a fresh UUID, and the   *)
(* path save_upload_file writes inside it.                                 *)
create_upload_dir(n) == <<"dir", n>>

UploadPath(kind, n) == <<kind, n>>

(* What save_upload_file leaves on disk: the whole file, or what was       *)
(* written of it when the write raised, or nothing when the size check     *)
(* raised first.                                                           *)
save_upload_file(path, fault) == IF fault = "too_large" THEN {} ELSE {path}

(* POST /files, the checks before the try block.                           *)
upload_file_validation_any_category(u, project_id, period_id, category) ==
    LET pid == IF project_id = NULL /\ period_id \in DOMAIN periods
               THEN periods[period_id].project_id ELSE project_id
    IN IF ~get_current_user(u) THEN HTTP_401_UNAUTHORIZED
       ELSE IF project_id = NULL /\ period_id = NULL THEN HTTP_400_BAD_REQUEST
       ELSE IF period_id # NULL /\ period_id \notin DOMAIN periods
            THEN HTTP_404_NOT_FOUND
       ELSE IF ~check_project_edit_access(pid, u) THEN HTTP_403_FORBIDDEN
       ELSE HTTP_200_OK

upload_file_validation(u, project_id, period_id, category) ==
    LET pid == IF project_id = NULL /\ period_id \in DOMAIN periods
               THEN periods[period_id].project_id ELSE project_id
    IN IF ~get_current_user(u) THEN HTTP_401_UNAUTHORIZED
       ELSE IF project_id = NULL /\ period_id = NULL THEN HTTP_400_BAD_REQUEST
       ELSE IF period_id # NULL /\ period_id \notin DOMAIN periods
            THEN HTTP_404_NOT_FOUND
       ELSE IF ~check_project_edit_access(pid, u) THEN HTTP_403_FORBIDDEN
       ELSE IF category \notin valid_categories THEN HTTP_400_BAD_REQUEST
       ELSE HTTP_200_OK

(* POST /files.  Every failure inside the try block, the size limit and    *)
(* the write of save_upload_file and the foreign keys of the insert        *)
(* included, becomes FileUploadException (400).                            *)
upload_file_response(u, project_id, period_id, category, fault) ==
    LET pid == IF project_id = NULL /\ period_id \in DOMAIN periods
               THEN periods[period_id].project_id ELSE project_id
        v == upload_file_validation(u, project_id, period_id, category)
    IN IF v # HTTP_200_OK THEN v
       ELSE IF fault # "none" THEN HTTP_400_BAD_REQUEST
       ELSE IF pid \notin DOMAIN projects THEN HTTP_400_BAD_REQUEST
       ELSE HTTP_201_CREATED

(* The except branch removes the file only when file_path is bound, which  *)
(* it is once save_upload_file has returned: a failed insert removes the   *)
(* file, a failed write leaves what was written.  The directory stays.     *)
upload_file(u, project_id, period_id, category, fault) ==
    LET code == upload_file_response(u, project_id, period_id, category, fault)
        v == upload_file_validation(u, project_id, period_id, category)
        pid == IF project_id = NULL THEN periods[period_id].project_id
               ELSE project_id
        id == next_id.file
        n == next_id.upload
        file_path == UploadPath("file", n)
    IN /\ Answer("upload_file", u, code)
       /\ IF v # HTTP_200_OK
          THEN UNCHANGED store
          ELSE /\ CanCreate("upload", MaxUploads)
               /\ IF code = HTTP_201_CREATED
                  THEN /\ CanCreate("file", MaxFiles)
                       /\ files' = Insert(files, id,
                             [project_id |-> pid, period_id |-> period_id,
                              category |-> category, path |-> file_path])
                       /\ disk' = disk \cup {create_upload_dir(n)}
                                       \cup save_upload_file(file_path, fault)
                       /\ next_id' = [next_id EXCEPT !.upload = @ + 1,
                                                     !.file = @ + 1]
                  ELSE /\ files' = files
                       /\ disk' = disk \cup {create_upload_dir(n)}
                             \cup (IF fault = "none" THEN {}
                                   ELSE save_upload_file(file_path, fault))
                       /\ next_id' = Bump("upload")
               /\ UNCHANGED <<users, projects, assignments, periods, geo_points,
                              geo_point_images>>

(* DELETE /files/{file_id}: the file on disk, then the row.                *)
delete_file_endpoint_response(u, file_id) ==
    IF ~get_current_user(u) THEN HTTP_401_UNAUTHORIZED
    ELSE IF file_id \notin DOMAIN files THEN HTTP_404_NOT_FOUND
    ELSE IF ~check_project_edit_access(files[file_id].project_id, u)
         THEN HTTP_403_FORBIDDEN
    ELSE HTTP_204_NO_CONTENT

delete_file_endpoint(u, file_id) ==
    LET code == delete_file_endpoint_response(u, file_id)
    IN /\ Answer("delete_file_endpoint", u, code)
       /\ IF code = HTTP_204_NO_CONTENT
          THEN /\ disk' = disk \ {files[file_id].path}
               /\ files' = Restrict(files, DOMAIN files \ {file_id})
               /\ UNCHANGED <<users, projects, assignments, periods, geo_points,
                              geo_point_images, next_id>>
          ELSE UNCHANGED store

-----------------------------------------------------------------------------
(* routes/geo_points.py, services/geo_point_service.py and                 *)
(* services/geo_point_image_service.py                                     *)

(* What every /geo-points/{geo_point_id} handler does first: the geo-point *)
(* row, its period row, then the Edit tier on that period's project.       *)
GeoPointEditGate(u, geo_point_id) ==
    IF ~get_current_user(u) THEN HTTP_401_UNAUTHORIZED
    ELSE IF geo_point_id \notin DOMAIN geo_points THEN HTTP_404_NOT_FOUND
    ELSE IF geo_points[geo_point_id].period_id \notin DOMAIN periods
         THEN HTTP_404_NOT_FOUND
    ELSE IF ~check_project_edit_access(
                periods[geo_points[geo_point_id].period_id].project_id, u)
         THEN HTTP_403_FORBIDDEN
    ELSE HTTP_200_OK

(* PUT /geo-points/{geo_point_id}: the gate is on the geo-point's current *)
(* period; update_geo_point then sets every field of the payload, the      *)
(* period_id included.  period_id is NOT NULL with a foreign key: null or  *)
(* an unknown period fails at the commit.                                  *)
update_geo_point_detail_response(u, geo_point_id, geo_point_data) ==
    IF GeoPointEditGate(u, geo_point_id) # HTTP_200_OK
    THEN GeoPointEditGate(u, geo_point_id)
    ELSE IF "period_id" \in DOMAIN geo_point_data
            /\ Stored(geo_point_data.period_id) \notin DOMAIN periods
         THEN HTTP_500_INTERNAL_SERVER_ERROR
    ELSE HTTP_200_OK

update_geo_point_detail(u, geo_point_id, geo_point_data) ==
    LET code == update_geo_point_detail_response(u, geo_point_id, geo_point_data)
    IN /\ Answer("update_geo_point_detail", u, code)
       /\ IF code = HTTP_200_OK
          THEN /\ geo_points' = [geo_points EXCEPT ![geo_point_id] =
                     [period_id |-> IF "period_id" \in DOMAIN geo_point_data
                                    THEN Stored(geo_point_data.period_id)
                                    ELSE @.period_id,
                      kilometer |-> IF "kilometer" \in DOMAIN geo_point_data
                                    THEN Stored(geo_point_data.kilometer)
                                    ELSE @.kilometer]]
               /\ UNCHANGED <<users, projects, assignments, periods, files,
                              geo_point_images, disk, next_id>>
          ELSE UNCHANGED store

(* DELETE /geo-points/{geo_point_id}: the ORM removes the image rows too.  *)
delete_geo_point_detail_response(u, geo_point_id) ==
    IF GeoPointEditGate(u, geo_point_id) # HTTP_200_OK
    THEN GeoPointEditGate(u, geo_point_id)
    ELSE HTTP_204_NO_CONTENT

delete_geo_point_detail(u, geo_point_id) ==
    LET code == delete_geo_point_detail_response(u, geo_point_id)
    IN /\ Answer("delete_geo_point_detail", u, code)
       /\ IF code = HTTP_204_NO_CONTENT
          THEN /\ geo_points' = Restrict(geo_points, DOMAIN geo_points \ {geo_point_id})
               /\ geo_point_images' = Restrict(geo_point_images,
                     DOMAIN geo_point_images \ CascadeGeoPoints({geo_point_id}))
               /\ UNCHANGED <<users, projects, assignments, periods, files,
                              disk, next_id>>
          ELSE UNCHANGED store

(* POST /geo-points/{geo_point_id}/images: upload_geo_point_image has the *)
(* same try block as POST /files.                                          *)
upload_geo_point_image_endpoint_response(u, geo_point_id, fault) ==
    IF GeoPointEditGate(u, geo_point_id) # HTTP_200_OK
    THEN GeoPointEditGate(u, geo_point_id)
    ELSE IF fault # "none" THEN HTTP_400_BAD_REQUEST
    ELSE HTTP_201_CREATED

upload_geo_point_image_endpoint(u, geo_point_id, fault) ==
    LET code == upload_geo_point_image_endpoint_response(u, geo_point_id, fault)
        id == next_id.image
        n == next_id.upload
        file_path == UploadPath("geopoints", n)
    IN /\ Answer("upload_geo_point_image_endpoint", u, code)
       /\ IF GeoPointEditGate(u, geo_point_id) # HTTP_200_OK
          THEN UNCHANGED store
          ELSE /\ CanCreate("upload", MaxUploads)
               /\ disk' = disk \cup {create_upload_dir(n)}
                               \cup save_upload_file(file_path, fault)
               /\ IF code = HTTP_201_CREATED
                  THEN /\ CanCreate("image", MaxImages)
                       /\ geo_point_images' = Insert(geo_point_images, id,
                             [geo_point_id |-> geo_point_id, path |-> file_path])
                       /\ next_id' = [next_id EXCEPT !.upload = @ + 1,
                                                     !.image = @ + 1]
                  ELSE /\ geo_point_images' = geo_point_images
                       /\ next_id' = Bump("upload")
               /\ UNCHANGED <<users, projects, assignments, periods, files,
                              geo_points>>

(* DELETE /geo-points/{geo_point_id}/images/{image_id}: the gate is on the *)
(* geo-point of the path; delete_geo_point_image then looks the image up   *)
(* by image_id alone, removes its file and its row.                        *)
delete_geo_point_image_endpoint_response(u, geo_point_id, image_id) ==
    IF GeoPointEditGate(u, geo_point_id) # HTTP_200_OK
    THEN GeoPointEditGate(u, geo_point_id)
    ELSE IF image_id \notin DOMAIN geo_point_images THEN HTTP_404_NOT_FOUND
    ELSE HTTP_204_NO_CONTENT

delete_geo_point_image_endpoint(u, geo_point_id, image_id) ==
    LET code == delete_geo_point_image_endpoint_response(u, geo_point_id, image_id)
    IN /\ Answer("delete_geo_point_image_endpoint", u, code)
       /\ IF code = HTTP_204_NO_CONTENT
          THEN /\ disk' = disk \ {geo_point_images[image_id].path}
               /\ geo_point_images' = Restrict(geo_point_images,
                     DOMAIN geo_point_images \ {image_id})
               /\ UNCHANGED <<users, projects, assignments, periods, files,
                              geo_points, next_id>>
          ELSE UNCHANGED store

-----------------------------------------------------------------------------
(* routes/users.py and routes/auth.py                                      *)

(* The address a user registered with.                                     *)
Email(u) == <<u, "example.com">>

Emails == {Email(u) : u \in UserIds}

(* The user_id of /users/{user_id} is a string: the text of a UUID, in     *)
(* the lower case str() prints or in another spelling of the same value.   *)
UserRefs == {<<id, form>> : id \in UserIds, form \in {"lower", "upper"}}

(* str(current_user.id)                                                    *)
str(id) == <<id, "lower">>

(* select(User).where(User.id == user_id): the database compares UUID      *)
(* values, whatever the spelling of the text.                              *)
UserByRef(user_id) == user_id[1]

(* The relationships of User with cascade="all, delete-orphan":            *)
(* owned_projects (and what each project takes with it) and assignments.   *)
CascadeUser(u) ==
    LET ps == {p \in DOMAIN projects : projects[p].owner_id = u}
    IN [projects |-> ps,
        periods |-> UNION {CascadeProject(p).periods : p \in ps},
        files |-> UNION {CascadeProject(p).files : p \in ps},
        geo_points |-> UNION {CascadeProject(p).geo_points : p \in ps},
        geo_point_images |-> UNION {CascadeProject(p).geo_point_images : p \in ps},
        assignments |-> UNION {CascadeProject(p).assignments : p \in ps}
                          \cup {a \in DOMAIN assignments : assignments[a].user_id = u}]

(* POST /auth/token                                                        *)
login_for_access_token_response(username, password_ok) ==
    LET found == {u \in DOMAIN users : users[u].email = username}
    IN IF found = {} \/ ~password_ok THEN HTTP_401_UNAUTHORIZED
       ELSE IF \E u \in found : ~users[u].is_active THEN HTTP_401_UNAUTHORIZED
       ELSE HTTP_200_OK

login_for_access_token(username, password_ok) ==
    /\ Answer("login_for_access_token", username[1],
                        login_for_access_token_response(username, password_ok))
    /\ UNCHANGED store

(* A request that carries no token, and the subject named in the answer   *)
(* of one that issued none.                                                *)
ANONYMOUS == "anonymous"

(* The UUID the n-th row added to the user table gets.                     *)
NewUserId(n) == IF n = 1 THEN "u5" ELSE "u6"

(* select(User).where(User.email == user_data.email)                       *)
UsersByEmail(email) == {u \in DOMAIN users : users[u].email = email}

(* POST /auth/register: no dependency on a token.  The role of the new     *)
(* row is the role of the payload (UserCreate: any of the three, regular   *)
(* when absent); the answer carries a token for the new user.              *)
register_user_response_no_lookup(email, role) == HTTP_200_OK

register_user_response(email, role) ==
    IF UsersByEmail(email) # {} THEN HTTP_409_CONFLICT ELSE HTTP_200_OK

register_user(email, role) ==
    LET code == register_user_response(email, role)
        id == NewUserId(next_id.user)
    IN IF code = HTTP_200_OK
       THEN /\ CanCreate("user", MaxRegistrations)
            /\ users' = Insert(users, id,
                  [email |-> email, role |-> role, is_active |-> TRUE])
            /\ next_id' = Bump("user")
            /\ Answer("register_user", id, code)
            /\ UNCHANGED <<projects, assignments, periods, files, geo_points,
                           geo_point_images, disk>>
       ELSE /\ Answer("register_user", ANONYMOUS, code)
            /\ UNCHANGED store

(* POST /users (CurrentAdminUser)                                          *)
create_user_response(t, email, role) ==
    IF ~get_current_user(t) THEN HTTP_401_UNAUTHORIZED
    ELSE IF users[t].role # "admin" THEN HTTP_403_FORBIDDEN
    ELSE IF UsersByEmail(email) # {} THEN HTTP_409_CONFLICT
    ELSE HTTP_201_CREATED

create_user(t, email, role) ==
    LET code == create_user_response(t, email, role)
    IN /\ Answer("create_user", t, code)
       /\ IF code = HTTP_201_CREATED
          THEN /\ CanCreate("user", MaxRegistrations)
               /\ users' = Insert(users, NewUserId(next_id.user),
                     [email |-> email, role |-> role, is_active |-> TRUE])
               /\ next_id' = Bump("user")
               /\ UNCHANGED <<projects, assignments, periods, files, geo_points,
                              geo_point_images, disk>>
          ELSE UNCHANGED store

(* GET /users (CurrentAdminUser)                                           *)
get_users_response(t) ==
    IF ~get_current_user(t) THEN HTTP_401_UNAUTHORIZED
    ELSE IF users[t].role # "admin" THEN HTTP_403_FORBIDDEN
    ELSE HTTP_200_OK

(* select(User).order_by(User.name): the users in the order of their names. *)
OrderedUsers ==
    SelectSeq(<<"u1", "u2", "u3", "u4", "u5", "u6">>, LAMBDA u : u \in DOMAIN users)

get_users(t, skip, limit) ==
    /\ AnswerPage("get_users", t, get_users_response(t), OrderedUsers, skip, limit)
    /\ UNCHANGED store

(* GET /users/me                                                           *)
read_current_user_response(t) ==
    IF ~get_current_user(t) THEN HTTP_401_UNAUTHORIZED ELSE HTTP_200_OK

read_current_user(t) ==
    /\ Answer("read_current_user", t, read_current_user_response(t))
    /\ UNCHANGED store

(* GET /users/{user_id}: own data or admin, then the row.                  *)
get_user_response(t, user_id) ==
    IF ~get_current_user(t) THEN HTTP_401_UNAUTHORIZED
    ELSE IF str(t) # user_id /\ users[t].role # "admin" THEN HTTP_403_FORBIDDEN
    ELSE IF UserByRef(user_id) \notin DOMAIN users THEN HTTP_404_NOT_FOUND
    ELSE HTTP_200_OK

get_user(t, user_id) ==
    /\ Answer("get_user", t, get_user_response(t, user_id))
    /\ UNCHANGED store

(* PUT /users/{user_id}.  user_data holds the fields the payload gives;    *)
(* UserUpdate inherits is_active: Optional[bool] = True from UserBase, so  *)
(* a payload without is_active reads as is_active = True.                  *)
update_user_response(t, user_id) ==
    IF ~get_current_user(t) THEN HTTP_401_UNAUTHORIZED
    ELSE IF str(t) # user_id /\ users[t].role # "admin" THEN HTTP_403_FORBIDDEN
    ELSE IF UserByRef(user_id) \notin DOMAIN users THEN HTTP_404_NOT_FOUND
    ELSE HTTP_200_OK

update_user(t, user_id, user_data) ==
    LET code == update_user_response(t, user_id)
        user == UserByRef(user_id)
        email == Field(user_data, "email", None)
        role == Field(user_data, "role", None)
        is_active == Field(user_data, "is_active", Some(TRUE))
        taken == email # None /\ UsersByEmail(email[1]) \ {user} # {}
    IN IF code = HTTP_200_OK /\ taken
       THEN /\ Answer("update_user", t, HTTP_500_INTERNAL_SERVER_ERROR)
            /\ UNCHANGED store
       ELSE /\ Answer("update_user", t, code)
            /\ IF code = HTTP_200_OK
               THEN /\ users' = [users EXCEPT ![user] =
                          [email |-> IF email # None THEN email[1] ELSE @.email,
                           role |-> IF role # None /\ users[t].role = "admin"
                                    THEN role[1] ELSE @.role,
                           is_active |-> IF is_active # None /\ users[t].role = "admin"
                                         THEN is_active[1] ELSE @.is_active]]
                    /\ UNCHANGED <<projects, assignments, periods, files, geo_points,
                                   geo_point_images, disk, next_id>>
               ELSE UNCHANGED store

(* DELETE /users/{user_id} (CurrentAdminUser): the row, then the guard     *)
(* against deleting oneself, which compares the texts.                     *)
delete_user_response(t, user_id) ==
    IF ~get_current_user(t) THEN HTTP_401_UNAUTHORIZED
    ELSE IF users[t].role # "admin" THEN HTTP_403_FORBIDDEN
    ELSE IF UserByRef(user_id) \notin DOMAIN users THEN HTTP_404_NOT_FOUND
    ELSE IF str(t) = user_id THEN HTTP_400_BAD_REQUEST
    ELSE HTTP_204_NO_CONTENT

delete_user(t, user_id) ==
    LET code == delete_user_response(t, user_id)
        c == CascadeUser(UserByRef(user_id))
    IN /\ Answer("delete_user", t, code)
       /\ IF code = HTTP_204_NO_CONTENT
          THEN /\ users' = Restrict(users, DOMAIN users \ {UserByRef(user_id)})
               /\ projects' = Restrict(projects, DOMAIN projects \ c.projects)
               /\ periods' = Restrict(periods, DOMAIN periods \ c.periods)
               /\ files' = Restrict(files, DOMAIN files \ c.files)
               /\ geo_points' = Restrict(geo_points, DOMAIN geo_points \ c.geo_points)
               /\ geo_point_images' = Restrict(geo_point_images,
                     DOMAIN geo_point_images \ c.geo_point_images)
               /\ assignments' = Restrict(assignments,
                     DOMAIN assignments \ c.assignments)
               /\ UNCHANGED <<disk, next_id>>
          ELSE UNCHANGED store

-----------------------------------------------------------------------------
(* The registered users: one of each global role.  u4 is an identifier     *)
(* that names no user.                                                     *)
EmptyTable == [x \in {} |-> x]

SeedUsers ==
    [u \in {"u1", "u2", "u3"} |->
        [role |-> CASE u = "u1" -> "admin"
                    [] u = "u2" -> "manager"
                    [] OTHER -> "regular",
         is_active |-> TRUE,
         email |-> Email(u)]]

(* Two projects as POST /projects leaves them: u2 owns 1, u3 owns 2.       *)
SeedProjects ==
    [p \in {1, 2} |-> [owner_id |-> IF p = 1 THEN "u2" ELSE "u3",
                       status |-> "Planificacion"]]

FirstIds == [project |-> 1, assignment |-> 1, period |-> 1, file |-> 1, upload |-> 1, user |-> 1,
             geo_point |-> 1, image |-> 1]

-----------------------------------------------------------------------------
(* Assignments: requests on the assignments of two existing projects.      *)
InitAssignments ==
    /\ users = SeedUsers
    /\ projects = SeedProjects
    /\ assignments = EmptyTable
    /\ periods = EmptyTable
    /\ files = EmptyTable
    /\ geo_points = EmptyTable
    /\ geo_point_images = EmptyTable
    /\ disk = {}
    /\ next_id = [FirstIds EXCEPT !.project = 3]
    /\ last = Response("none", "u4", HTTP_200_OK)
    /\ pending = <<>>
    /\ page = NoPage

BatchInputs == UNION {[1..n -> {"u3", "u4"}] : n \in 0..MaxBatch}

NextAssignments ==
    \/ \E u \in DOMAIN users, p \in ProjectIds : get_project_assignments(u, p, 0, 20)
    \/ \E u \in DOMAIN users, p \in ProjectIds, t \in UserIds, r \in AssignmentRoles :
          assign_user_to_project(u, p, t, r)
    \/ \E u \in DOMAIN users, p \in ProjectIds, b \in ProjectIds, ids \in BatchInputs,
          r \in AssignmentRoles : batch_assign_users(u, p, b, ids, r)
    \/ \E u \in DOMAIN users, a \in AssignmentIds, r \in AssignmentRoles \cup {UNSET} :
          update_assignment(u, a, r)
    \/ \E u \in DOMAIN users, a \in AssignmentIds : delete_assignment(u, a)
    \/ \E u \in DOMAIN users, p \in ProjectIds : delete_project(u, p)

SpecAssignments == InitAssignments /\ [][NextAssignments]_vars

-----------------------------------------------------------------------------
(* Projects: the life of the projects that u2 creates, u3 being assigned   *)
(* to them; every user asks for the project, its periods, and to change    *)
(* or delete it.                                                           *)
InitProjects ==
    /\ users = SeedUsers
    /\ projects = EmptyTable
    /\ assignments = EmptyTable
    /\ periods = EmptyTable
    /\ files = EmptyTable
    /\ geo_points = EmptyTable
    /\ geo_point_images = EmptyTable
    /\ disk = {}
    /\ next_id = FirstIds
    /\ last = Response("none", "u4", HTTP_200_OK)
    /\ pending = <<>>
    /\ page = NoPage

NextProjects ==
    \/ create_project("u2", UNSET)
    \/ \E u \in DOMAIN users, p \in ProjectIds : get_project(u, p)
    \/ \E u \in DOMAIN users, p \in ProjectIds : update_project(u, p, "En progreso")
    \/ \E u \in DOMAIN users, p \in ProjectIds : delete_project(u, p)
    \/ \E u \in DOMAIN users, p \in ProjectIds : get_project_periods(u, p, 0, 10)
    \/ \E u \in DOMAIN users, p \in ProjectIds : create_period(u, p, NULL)
    \/ \E u \in DOMAIN users, p \in ProjectIds, r \in AssignmentRoles :
          assign_user_to_project(u, p, "u3", r)
    \/ \E u \in DOMAIN users, a \in AssignmentIds, r \in AssignmentRoles :
          update_assignment(u, a, r)

SpecProjects == InitProjects /\ [][NextProjects]_vars

-----------------------------------------------------------------------------
(* Lists: every list handler with every offset and every limit, negative   *)
(* and zero included, while u2 and u3 create projects and the admin        *)
(* changes and deletes the first one, adds periods to it and gives u3 a    *)
(* row on it.                                                              *)
Skips == 0..MaxSkip

Limits == -1..MaxLimit

NextLists ==
    \/ \E u \in {"u2", "u3"} : create_project(u, UNSET)
    \/ update_project("u1", 1, "En progreso")
    \/ delete_project("u1", 1)
    \/ create_period("u1", 1, NULL)
    \/ assign_user_to_project("u1", 1, "u3", "viewer")
    \/ \E u \in DOMAIN users, st \in {UNSET, "En progreso"}, skip \in Skips,
          limit \in Limits : get_projects(u, st, skip, limit)
    \/ \E u \in DOMAIN users, p \in ProjectIds, skip \in Skips, limit \in Limits :
          get_project_periods(u, p, skip, limit)
    \/ \E p \in ProjectIds, skip \in Skips, limit \in Limits :
          get_project_assignments("u1", p, skip, limit)
    \/ \E p \in ProjectIds, skip \in Skips, limit \in Limits :
          get_files("u1", p, NULL, UNSET, skip, limit)
    \/ \E t \in {"u1", "u2"}, skip \in Skips, limit \in Limits :
          get_users(t, skip, limit)

SpecLists == InitProjects /\ [][NextLists]_vars

-----------------------------------------------------------------------------
(* Resources: both projects have a period with a geo-point; u3 holds a     *)
(* viewer or an editor row on project 1 (of u2), u2 a viewer row or none   *)
(* on project 2 (of u3).  Files and images are uploaded and deleted,       *)
(* periods and geo-points deleted.                                         *)
SeedPeriods ==
    [x \in {1, 2} |-> [project_id |-> x, kml_file_id |-> NULL, volume |-> NULL]]

SeedGeoPoints == [g \in {1, 2} |-> [period_id |-> g, kilometer |-> NULL]]

SeedGrants ==
    {Restrict([a \in {1, 2} |->
                  IF a = 1
                  THEN [user_id |-> "u3", project_id |-> 1, role |-> r]
                  ELSE [user_id |-> "u2", project_id |-> 2, role |-> "viewer"]],
              S) : r \in {"viewer", "editor"}, S \in {{1}, {1, 2}}}

InitResources ==
    /\ users = SeedUsers
    /\ projects = SeedProjects
    /\ assignments \in SeedGrants
    /\ periods = SeedPeriods
    /\ files = EmptyTable
    /\ geo_points = SeedGeoPoints
    /\ geo_point_images = EmptyTable
    /\ disk = {}
    /\ next_id = [project |-> 3, assignment |-> 3, period |-> 3, file |-> 1, upload |-> 1, user |-> 1,
                  geo_point |-> 3, image |-> 1]
    /\ last = Response("none", "u4", HTTP_200_OK)
    /\ pending = <<>>
    /\ page = NoPage

Optional(S) == {NULL} \cup S

NextResources ==
    \/ \E u \in DOMAIN users, x \in PeriodIds : delete_period(u, x)
    \/ \E u \in DOMAIN users, p \in Optional(ProjectIds), x \in Optional(PeriodIds),
          c \in {UNSET, "map"} : get_files(u, p, x, c, 0, 20)
    \/ \E u \in DOMAIN users, p \in Optional(ProjectIds), x \in Optional(PeriodIds),
          c \in {"map", "other"} : upload_file(u, p, x, c, "none")
    \/ \E u \in DOMAIN users, f \in FileIds : delete_file_endpoint(u, f)
    \/ \E u \in DOMAIN users, g \in GeoPointIds : delete_geo_point_detail(u, g)
    \/ \E u \in DOMAIN users, g \in GeoPointIds :
          upload_geo_point_image_endpoint(u, g, "none")
    \/ \E u \in DOMAIN users, g \in GeoPointIds, i \in ImageIds :
          delete_geo_point_image_endpoint(u, g, i)
    \/ \E u \in DOMAIN users, p \in ProjectIds : delete_project(u, p)

SpecResources == InitResources /\ [][NextResources]_vars

(* The uploads with every outcome of their storage step, the deletes of    *)
(* what was uploaded, and the delete of a project that makes the insert    *)
(* of a File row fail on its foreign key.                                  *)
NextUploads ==
    \/ \E u \in DOMAIN users, p \in Optional(ProjectIds), x \in Optional(PeriodIds),
          c \in {"map", "other"}, fault \in Faults : upload_file(u, p, x, c, fault)
    \/ \E u \in DOMAIN users, g \in GeoPointIds, fault \in Faults :
          upload_geo_point_image_endpoint(u, g, fault)
    \/ \E u \in DOMAIN users, f \in FileIds : delete_file_endpoint(u, f)
    \/ \E u \in DOMAIN users, g \in GeoPointIds, i \in ImageIds :
          delete_geo_point_image_endpoint(u, g, i)
    \/ \E u \in DOMAIN users, p \in ProjectIds : delete_project(u, p)

SpecUploads == InitResources /\ [][NextUploads]_vars

-----------------------------------------------------------------------------
(* Updates: every update handler with payloads in which a field is absent, *)
(* null or a value, on the first seeded project, its period and geo-point, *)
(* the grant of u3 on it and the user u3.                                  *)
PeriodUpdates ==
    {[volume |-> v] : v \in {None, Some(1)}}
    \cup {[kml_file_id |-> k] : k \in {None, Some(1)}}
    \cup {[volume |-> Some(2), kml_file_id |-> None]}

GeoPointUpdates ==
    {[kilometer |-> k] : k \in {None, Some(1)}}
    \cup {[period_id |-> x] : x \in {None, Some(1), Some(2)}}

NullableUserUpdates ==
    {[name |-> Some("n")], [is_active |-> Some(FALSE)], [is_active |-> None]}

NextUpdates ==
    \/ \E u \in DOMAIN users, d \in PeriodUpdates : update_period(u, 1, d)
    \/ \E u \in DOMAIN users, d \in GeoPointUpdates : update_geo_point_detail(u, 1, d)
    \/ \E t \in {"u1", "u3"}, d \in NullableUserUpdates : update_user(t, str("u3"), d)
    \/ \E u \in {"u1", "u3"}, r \in {UNSET, "editor"} : update_assignment(u, 1, r)
    \/ \E u \in {"u2", "u3"}, st \in {UNSET, "En progreso"} : update_project(u, 1, st)

SpecUpdates == InitResources /\ [][NextUpdates]_vars

-----------------------------------------------------------------------------
(* Users: the three seeded users and their two projects; any token, good   *)
(* or not, against the users router, the login and the projects router,    *)
(* while admins change roles, deactivate and delete users.                 *)
InitUsers ==
    /\ users = SeedUsers
    /\ projects = SeedProjects
    /\ assignments = [a \in {1} |->
                         [user_id |-> "u3", project_id |-> 1, role |-> "viewer"]]
    /\ periods = EmptyTable
    /\ files = EmptyTable
    /\ geo_points = EmptyTable
    /\ geo_point_images = EmptyTable
    /\ disk = {}
    /\ next_id = [project |-> 3, assignment |-> 2, period |-> 1, file |-> 1, upload |-> 1, user |-> 1,
                  geo_point |-> 1, image |-> 1]
    /\ last = Response("none", "u4", HTTP_200_OK)
    /\ pending = <<>>
    /\ page = NoPage

(* Payloads of PUT /users/{user_id}, by the fields they carry.             *)
UserUpdates ==
    {[name |-> Some("n")], [role |-> Some("admin")], [is_active |-> Some(FALSE)],
     [role |-> Some("admin"), is_active |-> Some(FALSE)]}

NextUsers ==
    \/ \E e \in Emails, ok \in BOOLEAN : login_for_access_token(e, ok)
    \/ \E t \in Tokens : get_users(t, 0, 100)
    \/ \E t \in Tokens : read_current_user(t)
    \/ \E t \in Tokens, r \in UserRefs : get_user(t, r)
    \/ \E t \in Tokens, r \in UserRefs, d \in UserUpdates : update_user(t, r, d)
    \/ \E t \in Tokens, r \in UserRefs : delete_user(t, r)
    \/ \E t \in Tokens, p \in ProjectIds : get_project(t, p)
    \/ \E t \in Tokens, p \in ProjectIds : update_project(t, p, "En progreso")

SpecUsers == InitUsers /\ [][NextUsers]_vars

(* Accounts: registration and the admin's user creation with every         *)
(* address and role, next to logins, updates and deletes by every token,   *)
(* the token of a newly registered user included.                          *)
AccountTokens == Tokens \cup {NewUserId(n) : n \in 1..MaxRegistrations}

NextAccounts ==
    \/ \E e \in Emails, r \in GlobalRoles : register_user(e, r)
    \/ \E t \in AccountTokens, e \in Emails, r \in GlobalRoles : create_user(t, e, r)
    \/ \E e \in Emails, ok \in BOOLEAN : login_for_access_token(e, ok)
    \/ \E t \in AccountTokens, r \in UserRefs, d \in UserUpdates : update_user(t, r, d)
    \/ \E t \in AccountTokens, r \in UserRefs : delete_user(t, r)

SpecAccounts == InitUsers /\ [][NextAccounts]_vars

-----------------------------------------------------------------------------
(* Concurrent assignment: the requests of u1 (global admin) and u2 (owner  *)
(* of project 1) to assign u3 and u2 to project 1 run together, next to    *)
(* batch requests and deletions of rows and of the project.                *)
NextConcurrent ==
    \/ \E u \in {"u1", "u2"}, t \in {"u2", "u3"}, r \in AssignmentRoles :
          assign_user_to_project_lookup(u, 1, t, r)
    \/ \E i \in 1..Len(pending) : assign_user_to_project_commit(i)
    \/ \E u \in {"u1", "u2"}, us \in BatchInputs :
          batch_assign_users(u, 1, 1, us, "viewer")
    \/ \E a \in AssignmentIds : delete_assignment("u1", a)
    \/ delete_project("u1", 1)

SpecConcurrent == InitAssignments /\ [][NextConcurrent]_vars

-----------------------------------------------------------------------------
(* The tiers as section 4.1 of the specification defines them.             *)
IsOwner(U, P) == P \in DOMAIN projects /\ projects[P].owner_id = U

HasAssignment(U, P, roles) ==
    \E a \in DOMAIN assignments : /\ assignments[a].user_id = U
                                  /\ assignments[a].project_id = P
                                  /\ assignments[a].role \in roles

TierView(U, P) ==
    users[U].role = "admin" \/ IsOwner(U, P) \/ HasAssignment(U, P, AssignmentRoles)

TierEdit(U, P) ==
    users[U].role = "admin" \/ IsOwner(U, P) \/ HasAssignment(U, P, {"editor", "admin"})

TierAdmin(U, P) ==
    users[U].role = "admin" \/ IsOwner(U, P) \/ HasAssignment(U, P, {"admin"})

(* C1: for every user U and project P the three checks of the code equal   *)
(* the tiers' definitions; a global admin holds the Admin tier with no row *)
(* and without owning P; the global roles manager and regular give nothing *)
(* to a user who neither owns P nor has a row on P.                        *)
C1_PolicyEqualsDefinition ==
    \A U \in DOMAIN users, P \in DOMAIN projects :
        /\ check_project_access(P, U) = TierView(U, P)
        /\ check_project_edit_access(P, U) = TierEdit(U, P)
        /\ check_project_admin_access(P, U) = TierAdmin(U, P)
        /\ users[U].role = "admin" => check_project_admin_access(P, U)
        /\ (/\ users[U].role \in {"manager", "regular"}
            /\ ~IsOwner(U, P)
            /\ ~HasAssignment(U, P, AssignmentRoles)) => ~check_project_access(P, U)

(* A manager who is neither owner nor global admin holds an editor row on  *)
(* one project and nothing on the other: edit there, no admin, no view of  *)
(* the other project.                                                      *)
C1_Witness ==
    \E P \in DOMAIN projects, Q \in DOMAIN projects :
        /\ P # Q
        /\ HasAssignment("u2", P, {"editor"})
        /\ ~IsOwner("u2", P)
        /\ check_project_edit_access(P, "u2")
        /\ ~check_project_admin_access(P, "u2")
        /\ IsOwner("u3", P)
        /\ HasAssignment("u3", P, {"viewer"})

(* C2: tier monotonicity of the code's checks: admin implies edit, edit    *)
(* implies view, for every user and every project identifier.              *)
C2_TierMonotonicity ==
    \A U \in DOMAIN users, P \in ProjectIds :
        /\ check_project_admin_access(P, U) => check_project_edit_access(P, U)
        /\ check_project_edit_access(P, U) => check_project_access(P, U)

(* A user holds the Admin tier of one project through an admin row alone,  *)
(* another the Edit tier of the other project through an editor row alone. *)
C2_Witness ==
    \E P \in DOMAIN projects, Q \in DOMAIN projects,
       U \in DOMAIN users, V \in DOMAIN users :
        /\ users[U].role # "admin" /\ ~IsOwner(U, P)
        /\ users[V].role # "admin" /\ ~IsOwner(V, Q)
        /\ HasAssignment(U, P, {"admin"})
        /\ HasAssignment(V, Q, {"editor"})
        /\ check_project_admin_access(P, U)
        /\ check_project_edit_access(Q, V)
        /\ ~check_project_admin_access(Q, V)

(* C3: the owner of a project holds the Admin tier (and Edit, and View)    *)
(* on it in every reachable state, whatever row exists for (owner, P).     *)
C3_OwnershipDominates ==
    \A P \in DOMAIN projects :
        /\ check_project_admin_access(P, projects[P].owner_id)
        /\ check_project_edit_access(P, projects[P].owner_id)
        /\ check_project_access(P, projects[P].owner_id)

(* The owner (not a global admin) has been assigned to the own project as  *)
(* viewer.                                                                 *)
C3_Witness ==
    \E P \in DOMAIN projects :
        /\ users[projects[P].owner_id].role # "admin"
        /\ HasAssignment(projects[P].owner_id, P, {"viewer"})
        /\ ~HasAssignment(projects[P].owner_id, P, {"editor", "admin"})
        /\ last.op \in {"assign_user_to_project", "update_assignment"}

AssignmentOps ==
    {"assign_user_to_project", "batch_assign_users", "update_assignment",
     "delete_assignment"}

(* The assignment rows of project P in a table.                            *)
RowsOf(table, P) ==
    {<<a, table[a]>> : a \in {x \in DOMAIN table : table[x].project_id = P}}

(* A user without the Admin tier on P is answered 403 by the four          *)
(* assignment requests on P.                                               *)
C4_Denied ==
    \A u \in DOMAIN users, P \in ProjectIds :
        (get_current_user(u) /\ ~TierAdmin(u, P)) =>
            /\ \A t \in UserIds :
                  assign_user_to_project_response(u, P, t) = HTTP_403_FORBIDDEN
            /\ \A b \in ProjectIds :
                  batch_assign_users_response(u, P, b) = HTTP_403_FORBIDDEN
            /\ \A a \in DOMAIN assignments :
                  assignments[a].project_id = P =>
                      /\ update_assignment_response(u, a) = HTTP_403_FORBIDDEN
                      /\ delete_assignment_response(u, a) = HTTP_403_FORBIDDEN

(* A step changes the rows of P only as an assignment request of a user    *)
(* holding the Admin tier on P before the step, or by deleting P; a 403    *)
(* answer of an assignment request leaves the whole store as it was.       *)
C4_Step ==
    /\ \A P \in ProjectIds :
          RowsOf(assignments, P) # RowsOf(assignments', P) =>
              \/ P \in DOMAIN projects /\ P \notin DOMAIN projects'
              \/ /\ last'.op \in AssignmentOps
                 /\ last'.user \in DOMAIN users
                 /\ TierAdmin(last'.user, P)
    /\ (last'.op \in AssignmentOps /\ last'.status = HTTP_403_FORBIDDEN) =>
          UNCHANGED store

(* C4: the assignment rows of project P change by a request only if the    *)
(* requester holds the Admin tier on P at that time (the cascade of        *)
(* deleting P apart); create, batch-assign, update and delete requests of  *)
(* any other user are answered 403 and change nothing.                     *)
C4_OnlyAdminTierChangesAssignments == []C4_Denied /\ [][C4_Step]_vars

(* An editor of P (not owner, not global admin) asked to change a row      *)
(* while two rows exist, and was answered 403.                             *)
C4_Witness ==
    /\ last.op \in {"update_assignment", "assign_user_to_project"}
    /\ last.status = HTTP_403_FORBIDDEN
    /\ Cardinality(DOMAIN assignments) = 2
    /\ \E P \in DOMAIN projects :
          /\ HasAssignment(last.user, P, {"editor"})
          /\ ~TierAdmin(last.user, P)
          /\ Cardinality(RowsOf(assignments, P)) = 2

(* C6: every user holding the View tier on P is answered 200 by            *)
(* GET /projects/{P}/assignments.                                          *)
C6_ViewTierListsAssignments ==
    \A u \in DOMAIN users, P \in DOMAIN projects :
        (get_current_user(u) /\ TierView(u, P)) =>
            get_project_assignments_response(u, P) = HTTP_200_OK

(* The roles of the rows of the pair (B, X).                               *)
RolesOf(B, X) == {assignments[a].role : a \in AssignmentsOf(B, X)}

(* What a user B who is neither global admin nor owner of X is answered,   *)
(* by the role of the assignment B holds on X at the time of the request.  *)
C5_Responses ==
    \A B \in DOMAIN users, X \in DOMAIN projects :
        (get_current_user(B) /\ users[B].role # "admin" /\ ~IsOwner(B, X)) =>
            /\ RolesOf(B, X) = {"viewer"} =>
                  /\ get_project_response(B, X) = HTTP_200_OK
                  /\ get_project_periods_response(B, X) = HTTP_200_OK
                  /\ create_period_response(B, X) = HTTP_403_FORBIDDEN
                  /\ update_project_response(B, X) = HTTP_403_FORBIDDEN
                  /\ delete_project_response(B, X) = HTTP_403_FORBIDDEN
            /\ RolesOf(B, X) = {"editor"} =>
                  /\ create_period_response(B, X) = HTTP_201_CREATED
                  /\ update_project_response(B, X) = HTTP_200_OK
                  /\ delete_project_response(B, X) = HTTP_403_FORBIDDEN
            /\ RolesOf(B, X) = {"admin"} =>
                  /\ delete_project_response(B, X) = HTTP_204_NO_CONTENT

(* The answers are what happened: a 201 of create_period added a period,   *)
(* a 204 of delete_project removed a project, a 403 changed nothing.       *)
C5_Effects ==
    /\ (last'.op = "create_period" /\ last'.status = HTTP_201_CREATED) =>
          Cardinality(DOMAIN periods') = Cardinality(DOMAIN periods) + 1
    /\ (last'.op = "delete_project" /\ last'.status = HTTP_204_NO_CONTENT) =>
          Cardinality(DOMAIN projects') = Cardinality(DOMAIN projects) - 1
    /\ (last'.op \in {"create_period", "update_project", "delete_project"}
          /\ last'.status = HTTP_403_FORBIDDEN) => UNCHANGED store

(* C5: a role change takes effect on the next request: as viewer B reads   *)
(* X and its periods and is denied creating a period, updating and         *)
(* deleting X; as editor B creates a period and updates X and is denied    *)
(* deleting X; as project admin B deletes X without owning it.             *)
C5_RoleChangesTakeEffect == []C5_Responses /\ [][C5_Effects]_vars

(* u3 (regular, owner of nothing) has deleted a project of u2 that still   *)
(* had a period created under it: only an admin row lets u3 do that.       *)
C5_Witness ==
    /\ last.op = "delete_project"
    /\ last.user = "u3"
    /\ last.status = HTTP_204_NO_CONTENT
    /\ next_id.period > 1
    /\ DOMAIN periods = {}
    /\ DOMAIN projects # {}

(* C10: GET /projects/{id} on an identifier that resolves to no project    *)
(* is answered 404 to every authenticated caller.                          *)
C10_MissingProjectIs404 ==
    \A u \in DOMAIN users, p \in ProjectIds \ DOMAIN projects :
        get_current_user(u) => get_project_response(u, p) = HTTP_404_NOT_FOUND

(* U holds on P nothing but assignment rows of the given roles (possibly   *)
(* none): no global admin role, no ownership.                              *)
OnlyGrants(U, P, roles) ==
    /\ get_current_user(U)
    /\ users[U].role # "admin"
    /\ ~IsOwner(U, P)
    /\ RolesOf(U, P) \subseteq roles

DeleteOps == {"delete_period", "delete_file_endpoint", "delete_geo_point_detail"}

(* The project a geo-point belongs to, through its period.                 *)
GeoPointProject(g) == periods[geo_points[g].period_id].project_id

(* The answer to each delete, by the grant of the requester on the         *)
(* project of the record: 204 with only an editor row, 403 with only a     *)
(* viewer row or no grant at all.                                          *)
C7_Responses ==
    \A U \in DOMAIN users :
        /\ \A x \in DOMAIN periods :
              LET P == periods[x].project_id
              IN /\ (OnlyGrants(U, P, {"editor"}) /\ RolesOf(U, P) # {}) =>
                        delete_period_response(U, x) = HTTP_204_NO_CONTENT
                 /\ OnlyGrants(U, P, {"viewer"}) =>
                        delete_period_response(U, x) = HTTP_403_FORBIDDEN
        /\ \A f \in DOMAIN files :
              LET P == files[f].project_id
              IN /\ (OnlyGrants(U, P, {"editor"}) /\ RolesOf(U, P) # {}) =>
                        delete_file_endpoint_response(U, f) = HTTP_204_NO_CONTENT
                 /\ OnlyGrants(U, P, {"viewer"}) =>
                        delete_file_endpoint_response(U, f) = HTTP_403_FORBIDDEN
        /\ \A g \in DOMAIN geo_points :
              LET P == GeoPointProject(g)
              IN /\ (OnlyGrants(U, P, {"editor"}) /\ RolesOf(U, P) # {}) =>
                        delete_geo_point_detail_response(U, g) = HTTP_204_NO_CONTENT
                 /\ OnlyGrants(U, P, {"viewer"}) =>
                        delete_geo_point_detail_response(U, g) = HTTP_403_FORBIDDEN

(* A delete answered 204 removed one record of its table; a delete         *)
(* answered 403 left every record, and every file on disk, in place.       *)
C7_Step ==
    /\ (last'.op = "delete_period" /\ last'.status = HTTP_204_NO_CONTENT) =>
          Cardinality(DOMAIN periods') = Cardinality(DOMAIN periods) - 1
    /\ (last'.op = "delete_file_endpoint" /\ last'.status = HTTP_204_NO_CONTENT) =>
          Cardinality(DOMAIN files') = Cardinality(DOMAIN files) - 1
    /\ (last'.op = "delete_geo_point_detail" /\ last'.status = HTTP_204_NO_CONTENT) =>
          Cardinality(DOMAIN geo_points') = Cardinality(DOMAIN geo_points) - 1
    /\ (last'.op \in DeleteOps /\ last'.status = HTTP_403_FORBIDDEN) =>
          UNCHANGED store

(* C7: deleting a period, a file or a geo-point needs the Edit tier, not   *)
(* the Admin tier: an editor row alone is enough, a viewer row or no       *)
(* grant is answered 403 and the record stays.                             *)
C7_DeleteNeedsEditTier == []C7_Responses /\ [][C7_Step]_vars

(* u3, whose only grant on project 1 is its assignment row, has deleted    *)
(* geo-point 1 of project 1 (geo-point 2, of u3's own project, is still    *)
(* there, so the 204 was for geo-point 1).                                 *)
C7_Witness ==
    /\ last.op = "delete_geo_point_detail"
    /\ last.user = "u3"
    /\ last.status = HTTP_204_NO_CONTENT
    /\ 1 \notin DOMAIN geo_points
    /\ 2 \in DOMAIN geo_points
    /\ RolesOf("u3", 1) = {"editor"}

(* The project that owns an image: image -> geo-point -> period -> project *)
ImageProject(i) == GeoPointProject(geo_point_images[i].geo_point_id)

(* C8: DELETE /geo-points/{geo_point_id}/images/{image_id} removes an      *)
(* image row or its file only for a requester with the Edit tier on the    *)
(* project that owns the image.                                            *)
C8_ImageDeleteNeedsEditOnImageProject ==
    [][last'.op = "delete_geo_point_image_endpoint" =>
          \A i \in DOMAIN geo_point_images :
              (i \notin DOMAIN geo_point_images'
                   \/ geo_point_images[i].path \in disk \ disk')
                  => TierEdit(last'.user, ImageProject(i))]_vars

(* C9: every file GET /files returns to U, whatever filters are given,     *)
(* belongs to a project U has the View tier on.                            *)
C9_ListedFilesAreViewable ==
    \A U \in DOMAIN users, p \in Optional(ProjectIds), x \in Optional(PeriodIds),
       c \in {UNSET} \cup valid_categories :
        get_files_response(U, p, x) = HTTP_200_OK =>
            \A f \in get_files_items(p, x, c) : TierView(U, files[f].project_id)

(* Every handler behind get_current_user answers 401 to the token t.       *)
AllAnswer401(t) ==
    /\ get_users_response(t) = HTTP_401_UNAUTHORIZED
    /\ read_current_user_response(t) = HTTP_401_UNAUTHORIZED
    /\ \A r \in UserRefs :
          /\ get_user_response(t, r) = HTTP_401_UNAUTHORIZED
          /\ update_user_response(t, r) = HTTP_401_UNAUTHORIZED
          /\ delete_user_response(t, r) = HTTP_401_UNAUTHORIZED
    /\ \A p \in ProjectIds :
          /\ get_project_response(t, p) = HTTP_401_UNAUTHORIZED
          /\ update_project_response(t, p) = HTTP_401_UNAUTHORIZED
          /\ delete_project_response(t, p) = HTTP_401_UNAUTHORIZED
          /\ get_project_assignments_response(t, p) = HTTP_401_UNAUTHORIZED
          /\ get_project_periods_response(t, p) = HTTP_401_UNAUTHORIZED
          /\ create_period_response(t, p) = HTTP_401_UNAUTHORIZED
          /\ \A u \in UserIds :
                assign_user_to_project_response(t, p, u) = HTTP_401_UNAUTHORIZED
          /\ \A b \in ProjectIds :
                batch_assign_users_response(t, p, b) = HTTP_401_UNAUTHORIZED
    /\ \A a \in AssignmentIds :
          /\ update_assignment_response(t, a) = HTTP_401_UNAUTHORIZED
          /\ delete_assignment_response(t, a) = HTTP_401_UNAUTHORIZED
    /\ \A x \in PeriodIds : delete_period_response(t, x) = HTTP_401_UNAUTHORIZED
    /\ \A p \in Optional(ProjectIds), x \in Optional(PeriodIds) :
          /\ get_files_response(t, p, x) = HTTP_401_UNAUTHORIZED
          /\ \A c \in {"map", "other"}, fault \in Faults :
                upload_file_response(t, p, x, c, fault) = HTTP_401_UNAUTHORIZED
    /\ \A f \in FileIds :
          delete_file_endpoint_response(t, f) = HTTP_401_UNAUTHORIZED
    /\ \A g \in GeoPointIds :
          /\ delete_geo_point_detail_response(t, g) = HTTP_401_UNAUTHORIZED
          /\ \A fault \in Faults :
                upload_geo_point_image_endpoint_response(t, g, fault)
                    = HTTP_401_UNAUTHORIZED
          /\ \A i \in ImageIds :
                delete_geo_point_image_endpoint_response(t, g, i)
                    = HTTP_401_UNAUTHORIZED

(* A token that is malformed or names no user or an inactive one is        *)
(* answered 401 everywhere, and the login of an inactive user fails.       *)
C11_Rejected ==
    /\ \A t \in Tokens :
          (t = MALFORMED \/ t \notin DOMAIN users \/ ~users[t].is_active)
              => AllAnswer401(t)
    /\ \A u \in DOMAIN users, ok \in BOOLEAN :
          ~users[u].is_active =>
              login_for_access_token_response(users[u].email, ok)
                  = HTTP_401_UNAUTHORIZED

(* A request whose token is such at the time it is made is answered 401    *)
(* and leaves the store as it was.                                         *)
C11_Step ==
    (/\ last'.op \notin {"none", "login_for_access_token"}
     /\ (last'.user = MALFORMED \/ last'.user \notin DOMAIN users
            \/ ~users[last'.user].is_active))
        => (last'.status = HTTP_401_UNAUTHORIZED /\ UNCHANGED store)

(* C11: every authenticated endpoint answers 401 to a token that is        *)
(* malformed or whose subject is a nonexistent or inactive user, so a      *)
(* deactivated or deleted user's earlier token reads and changes nothing,  *)
(* and login issues no token to an inactive user.                          *)
C11_AuthenticationRequired == []C11_Rejected /\ [][C11_Step]_vars

(* u3 was deactivated and then asked to change its own project 2 with the  *)
(* token it had: 401, the project as it was.                               *)
C11_Witness ==
    /\ "u3" \in DOMAIN users
    /\ ~users["u3"].is_active
    /\ last = Response("update_project", "u3", HTTP_401_UNAUTHORIZED)
    /\ 2 \in DOMAIN projects
    /\ projects[2].status = "Planificacion"

(* The answers of GET and PUT /users/{user_id}: 200 on one's own record,   *)
(* 403 to a non-admin on another's.                                        *)
C12_Responses ==
    \A t \in DOMAIN users, r \in UserRefs :
        get_current_user(t) =>
            /\ UserByRef(r) = t =>
                  /\ get_user_response(t, r) = HTTP_200_OK
                  /\ update_user_response(t, r) = HTTP_200_OK
            /\ (UserByRef(r) # t /\ users[t].role # "admin") =>
                  /\ get_user_response(t, r) = HTTP_403_FORBIDDEN
                  /\ update_user_response(t, r) = HTTP_403_FORBIDDEN

(* A 403 changes nothing; a non-admin's update changes no role and no      *)
(* active flag, and no record but the requester's own.                     *)
C12_Step ==
    /\ (last'.op \in {"get_user", "update_user"}
          /\ last'.status = HTTP_403_FORBIDDEN) => UNCHANGED store
    /\ (last'.op = "update_user" /\ last'.user \in DOMAIN users
          /\ users[last'.user].role # "admin") =>
          /\ DOMAIN users' = DOMAIN users
          /\ \A u \in DOMAIN users :
                /\ users'[u].role = users[u].role
                /\ users'[u].is_active = users[u].is_active
                /\ u # last'.user => users'[u] = users[u]

(* C12: a user can always read and update their own record; a non-admin    *)
(* is denied another user's record with 403 and no change; a non-admin's   *)
(* update of their own record changes neither role nor active flag.        *)
C12_UserRecordPolicy == []C12_Responses /\ [][C12_Step]_vars

(* C13: no user record is deleted by a request of that same user:          *)
(* DELETE /users/{id} on one's own id is a client error (400 for a global  *)
(* admin, 403 otherwise) and the users are as before.                      *)
C13_NoSelfDelete ==
    [][(last'.op = "delete_user" /\ last'.user \in DOMAIN users)
          => /\ last'.user \in DOMAIN users'
             /\ \A r \in UserRefs : UserByRef(r) = last'.user =>
                   delete_user_response(last'.user, r)
                       \in {HTTP_400_BAD_REQUEST, HTTP_401_UNAUTHORIZED,
                            HTTP_403_FORBIDDEN}]_vars

(* C14: POST /projects/{id}/assignments for a pair that has a row answers  *)
(* 201, leaves the project with as many rows as before and the row of the  *)
(* pair with the requested role.                                           *)
C14_AssignExistingUpdatesInPlace ==
    [][(last'.op = "assign_user_to_project" /\ last'.status = HTTP_201_CREATED)
       => \A p \in ProjectIds, t \in UserIds, r \in AssignmentRoles :
          (/\ AssignmentsOf(t, p) # {}
           /\ assign_user_to_project(last'.user, p, t, r))
              => /\ DOMAIN assignments' = DOMAIN assignments
                 /\ Cardinality(RowsOf(assignments', p))
                       = Cardinality(RowsOf(assignments, p))
                 /\ \A a \in AssignmentsOf(t, p) : assignments'[a].role = r
                 /\ \A a \in DOMAIN assignments \ AssignmentsOf(t, p) :
                       assignments'[a] = assignments[a]]_vars

(* Only one row was ever created, (u3, project 1), and u3 was the last to  *)
(* assign with a 201: u3 held the admin row of project 1 and re-assigned   *)
(* itself as viewer, in place.                                             *)
C14_Witness ==
    /\ last = Response("assign_user_to_project", "u3", HTTP_201_CREATED)
    /\ next_id.assignment = 2
    /\ DOMAIN assignments = {1}
    /\ assignments[1] = [user_id |-> "u3", project_id |-> 1, role |-> "viewer"]

(* C15: at most one assignment row per (user, project) pair, whatever the  *)
(* order and the interleaving of the requests.                             *)
C15_OneAssignmentPerPair ==
    \A a, b \in DOMAIN assignments :
        (/\ assignments[a].user_id = assignments[b].user_id
         /\ assignments[a].project_id = assignments[b].project_id) => a = b

(* The identifiers of a batch that resolve to a user.                      *)
Resolved(user_ids) == {user_ids[i] : i \in DOMAIN user_ids} \cap DOMAIN users

(* What batch_assign_users returns for an existing project: no error, and  *)
(* rows of the project with the requested role, for exactly the resolved   *)
(* identifiers; the rows that are new are theirs too.                      *)
C16_Result ==
    \A p \in DOMAIN projects, us \in BatchInputs, r \in AssignmentRoles :
        \A st \in BatchLoop({[table |-> assignments, next |-> next_id.assignment,
                              result |-> <<>>, failed |-> FALSE]}, p, us, r) :
            /\ ~st.failed
            /\ {st.table[st.result[i]].user_id : i \in DOMAIN st.result}
                  = Resolved(us)
            /\ \A i \in DOMAIN st.result :
                  /\ st.table[st.result[i]].project_id = p
                  /\ st.table[st.result[i]].role = r
            /\ DOMAIN assignments \subseteq DOMAIN st.table
            /\ \A a \in DOMAIN st.table \ DOMAIN assignments :
                  /\ st.table[a].user_id \in Resolved(us)
                  /\ {b \in DOMAIN assignments :
                         /\ assignments[b].user_id = st.table[a].user_id
                         /\ assignments[b].project_id = p} = {}

(* The store after a batch answered 201: no row was removed, no row has   *)
(* a user_id that names no user, and a row that is new belongs to a pair   *)
(* that had none.                                                          *)
C16_Step ==
    (last'.op = "batch_assign_users" /\ last'.status = HTTP_201_CREATED)
        => /\ DOMAIN assignments \subseteq DOMAIN assignments'
           /\ \A a \in DOMAIN assignments' :
                 assignments'[a].user_id \in DOMAIN users
           /\ \A a \in DOMAIN assignments' \ DOMAIN assignments :
                 AssignmentsOf(assignments'[a].user_id,
                               assignments'[a].project_id) = {}

(* C16: batch assignment succeeds partially: the identifiers that resolve  *)
(* to a user get a row with the requested role (updated or created), the   *)
(* others are skipped without a row and without an error.                  *)
C16_BatchSkipsUnknownUsers == []C16_Result /\ [][C16_Step]_vars

(* u3, owner of project 2, batch-assigned with 201 and the only row ever   *)
(* created is (u3, project 2).                                             *)
C16_Witness ==
    /\ last = Response("batch_assign_users", "u3", HTTP_201_CREATED)
    /\ next_id.assignment = 2
    /\ DOMAIN assignments = {1}
    /\ assignments[1].user_id = "u3"
    /\ assignments[1].project_id = 2
-----------------------------------------------------------------------------
(* The project a record belongs to: a File by its project_id, a Period by  *)
(* its project_id, a GeoPoint by its period, an image by its geo-point.    *)
CascadeOps == {"delete_project", "delete_period", "delete_geo_point_detail"}

(* The projects a step deletes something of: the deleted project, the      *)
(* project of the deleted period, the project of the deleted geo-point.    *)
Touched ==
    (DOMAIN projects \ DOMAIN projects')
    \cup {periods[x].project_id : x \in DOMAIN periods \ DOMAIN periods'}
    \cup {GeoPointProject(g) : g \in DOMAIN geo_points \ DOMAIN geo_points'}

Kept(table, table2, keep) ==
    \A k \in keep : k \in DOMAIN table2 /\ table2[k] = table[k]

C17_NoOrphans ==
    /\ \A p \in DOMAIN projects \ DOMAIN projects' :
          /\ \A x \in DOMAIN periods' : periods'[x].project_id # p
          /\ \A f \in DOMAIN files' : files'[f].project_id # p
          /\ \A a \in DOMAIN assignments' : assignments'[a].project_id # p
    /\ \A x \in DOMAIN periods \ DOMAIN periods' :
          /\ \A f \in DOMAIN files' : files'[f].period_id # x
          /\ \A g \in DOMAIN geo_points' : geo_points'[g].period_id # x
    /\ \A g \in DOMAIN geo_points \ DOMAIN geo_points' :
          \A i \in DOMAIN geo_point_images' : geo_point_images'[i].geo_point_id # g

C17_OthersUnchanged ==
    /\ Kept(projects, projects', DOMAIN projects \ Touched)
    /\ Kept(periods, periods',
            {x \in DOMAIN periods : periods[x].project_id \notin Touched})
    /\ Kept(files, files',
            {f \in DOMAIN files : files[f].project_id \notin Touched})
    /\ Kept(assignments, assignments',
            {a \in DOMAIN assignments : assignments[a].project_id \notin Touched})
    /\ Kept(geo_points, geo_points',
            {g \in DOMAIN geo_points : GeoPointProject(g) \notin Touched})
    /\ Kept(geo_point_images, geo_point_images',
            {i \in DOMAIN geo_point_images : ImageProject(i) \notin Touched})

(* C17: a delete of a project, a period or a geo-point leaves no record    *)
(* that references what was deleted, and leaves every record of another    *)
(* project as it was.                                                      *)
C17_CascadeLeavesNoOrphans ==
    [][last'.op \in CascadeOps => C17_NoOrphans /\ C17_OthersUnchanged]_vars

(* The half of C17 about what is removed, on its own.                      *)
C17_Removed == [][last'.op \in CascadeOps => C17_NoOrphans]_vars

-----------------------------------------------------------------------------
(* The image rows of a geo-point.                                          *)
ImagesOf(g) == {i \in DOMAIN geo_point_images : geo_point_images[i].geo_point_id = g}

(* C18: after DELETE /geo-points/{id} answers 204 the image rows of that   *)
(* geo-point are gone and nothing exists on disk at the paths those rows   *)
(* recorded.                                                               *)
C18_GeoPointDeleteRemovesImageFiles ==
    [][(last'.op = "delete_geo_point_detail" /\ last'.status = HTTP_204_NO_CONTENT)
        => \A g \in DOMAIN geo_points \ DOMAIN geo_points' :
              \A i \in ImagesOf(g) :
                 /\ i \notin DOMAIN geo_point_images'
                 /\ geo_point_images[i].path \notin disk']_vars

(* The half of C18 about the rows, on its own.                             *)
C18_Rows ==
    [][(last'.op = "delete_geo_point_detail" /\ last'.status = HTTP_204_NO_CONTENT)
        => \A g \in DOMAIN geo_points \ DOMAIN geo_points' :
              \A i \in ImagesOf(g) : i \notin DOMAIN geo_point_images']_vars

-----------------------------------------------------------------------------
(* An upload request that fails validation: a category outside the four,   *)
(* or neither identifier given.                                            *)
FailsValidation(project_id, period_id, category) ==
    \/ category \notin {"map", "image", "document", "analysis"}
    \/ project_id = NULL /\ period_id = NULL

(* The request names a target the requester may upload to: the period, if  *)
(* given, exists, and the requester holds the Edit tier on the project.    *)
MayUploadTo(u, project_id, period_id) ==
    /\ project_id # NULL \/ period_id # NULL
    /\ period_id # NULL => period_id \in DOMAIN periods
    /\ TierEdit(u, IF project_id # NULL THEN project_id
                   ELSE periods[period_id].project_id)

C19_Responses ==
    \A u \in DOMAIN users, p \in Optional(ProjectIds), x \in Optional(PeriodIds),
       c \in {"map", "other"}, fault \in Faults :
        FailsValidation(p, x, c) =>
            /\ upload_file_response(u, p, x, c, fault) # HTTP_201_CREATED
            /\ (users[u].is_active /\ p = NULL /\ x = NULL)
                  => upload_file_response(u, p, x, c, fault) = HTTP_400_BAD_REQUEST
            /\ (users[u].is_active /\ MayUploadTo(u, p, x))
                  => upload_file_response(u, p, x, c, fault) = HTTP_400_BAD_REQUEST

(* No step that changes a record, the disk or a counter is an upload that *)
(* fails validation.                                                       *)
C19_Step ==
    (last'.op = "upload_file" /\ store' # store) =>
        \A p \in Optional(ProjectIds), x \in Optional(PeriodIds),
           c \in {"map", "other"}, fault \in Faults :
            FailsValidation(p, x, c) => ~upload_file(last'.user, p, x, c, fault)

(* C19: POST /files with a category outside map, image, document,          *)
(* analysis, or with neither a project nor a period identifier, answers    *)
(* 400 to a requester who may upload to the target (400 to every           *)
(* authenticated requester when neither identifier is given), never 201,   *)
(* and creates no directory, no file on disk and no File row.              *)
C19_FailedValidationMutatesNothing == []C19_Responses /\ [][C19_Step]_vars

(* u3, owner of project 2, was answered 400 with nothing on disk and no    *)
(* upload directory ever made: the 400 came from the validation.           *)
C19_Witness ==
    /\ last = Response("upload_file", "u3", HTTP_400_BAD_REQUEST)
    /\ files = EmptyTable
    /\ disk = {}
    /\ next_id.upload = 1

-----------------------------------------------------------------------------
UploadOps == {"upload_file", "upload_geo_point_image_endpoint"}

(* A step in which an upload reached its storage step (it took a fresh     *)
(* upload directory) and was answered with the FileUploadException.        *)
StorageStepFailed ==
    /\ last'.op \in UploadOps
    /\ last'.status = HTTP_400_BAD_REQUEST
    /\ next_id'.upload # next_id.upload

(* C20: when an upload fails during its storage step, whether the write    *)
(* raised or the insert or commit failed after the write, no file written  *)
(* by that upload is on disk and no row for it exists when the error is    *)
(* answered.                                                               *)
C20_UploadCleanupOnFailure ==
    [][StorageStepFailed =>
          /\ UploadPath("file", next_id.upload) \notin disk'
          /\ UploadPath("geopoints", next_id.upload) \notin disk'
          /\ files' = files
          /\ geo_point_images' = geo_point_images]_vars

(* The cases of C20 in which save_upload_file returned: the size check     *)
(* raised before the file was opened, or the insert failed after the write.*)
C20_AfterReturnedWrite ==
    [][StorageStepFailed =>
          \A p \in Optional(ProjectIds), x \in Optional(PeriodIds),
             c \in {"map", "other"}, fault \in {"none", "too_large"} :
              upload_file(last'.user, p, x, c, fault)
                  => /\ UploadPath("file", next_id.upload) \notin disk'
                     /\ files' = files]_vars

(* The insert of a File row failed on its foreign key after the file was   *)
(* written: the project was deleted, the global admin uploaded to it.      *)
C20_InsertFailureReached ==
    /\ last = Response("upload_file", "u1", HTTP_400_BAD_REQUEST)
    /\ DOMAIN projects = {2}
    /\ next_id.upload = 2
    /\ disk = {create_upload_dir(1)}

-----------------------------------------------------------------------------
C21_Responses ==
    /\ \A e \in Emails, r \in GlobalRoles :
          UsersByEmail(e) # {} => register_user_response(e, r) = HTTP_409_CONFLICT
    /\ \A u \in DOMAIN users, v \in DOMAIN users :
          users[u].email = users[v].email => u = v

C21_Step ==
    last'.op = "register_user" =>
        \A e \in Emails, r \in GlobalRoles :
            (UsersByEmail(e) # {} /\ register_user(e, r))
                => /\ last'.status = HTTP_409_CONFLICT
                   /\ last'.user = ANONYMOUS
                   /\ users' = users

(* C21: registering with an address that already belongs to a user is      *)
(* answered 409, the answer carries no token, and the user table is as it  *)
(* was: no second row with that address, the existing row not modified.    *)
C21_RegisterExistingEmailConflicts == []C21_Responses /\ [][C21_Step]_vars

(* A registration was refused after an earlier one had created the user    *)
(* with the free address.                                                  *)
C21_Witness ==
    /\ last = Response("register_user", ANONYMOUS, HTTP_409_CONFLICT)
    /\ "u5" \in DOMAIN users
    /\ users["u5"].email = Email("u4")

-----------------------------------------------------------------------------
ListOps == {"get_projects", "get_project_periods", "get_project_assignments",
            "get_files", "get_users"}

(* The last request was a list and was answered with a page.               *)
ListAnswered == last.op \in ListOps /\ last.status = HTTP_200_OK

(* C22: a list whose filtered total is 0, asked with a positive limit and  *)
(* offset 0, is answered with page = 1 and pages = 1.                      *)
C22_EmptyListIsOnePage ==
    (ListAnswered /\ page.body.total = 0 /\ page.body.page_size > 0 /\ page.skip = 0)
        => page.body.page = 1 /\ page.body.pages = 1

(* The half of C22 about the page number, on its own.                      *)
C22_PageNumber ==
    (ListAnswered /\ page.body.total = 0 /\ page.body.page_size > 0 /\ page.skip = 0)
        => page.body.page = 1

Floor(a, b) == CHOOSE k \in 0..a : k * b <= a /\ a < (k + 1) * b

Ceil(a, b) == CHOOSE k \in 0..a : (k - 1) * b < a /\ a <= k * b

Min(a, b) == IF a < b THEN a ELSE b

Max(a, b) == IF a < b THEN b ELSE a

C23_Page ==
    ListAnswered =>
        LET skip == page.skip
            limit == page.body.page_size
            total == page.body.total
        IN /\ limit > 0 => /\ page.body.page = Floor(skip, limit) + 1
                           /\ page.body.pages = Ceil(total, limit)
           /\ limit <= 0 => page.body.page = 1 /\ page.body.pages = 1
           /\ Len(page.body.items) = Min(limit, Max(0, total - skip))

(* C23: every list request with an offset >= 0 and any integer limit gets  *)
(* a page with page = floor(skip/limit) + 1 and pages = ceil(total/limit)  *)
(* for limit > 0, page = 1 and pages = 1 for limit <= 0, and               *)
(* min(limit, max(0, total - skip)) items.                                 *)
C23_Pagination ==
    /\ C23_Page
    /\ last.op \in ListOps => last.status # HTTP_500_INTERNAL_SERVER_ERROR

-----------------------------------------------------------------------------
(* What the frame rule of partial updates asks of one column: untouched    *)
(* when the payload leaves the field out, null when the payload gives      *)
(* null.                                                                   *)
Untouched(data, field, old, new) == field \notin DOMAIN data => new[field] = old[field]

Nulled(data, field, new) ==
    (field \in DOMAIN data /\ data[field] = None) => new[field] = NULL

C24_Periods ==
    (last'.op = "update_period" /\ last'.status = HTTP_200_OK) =>
        \A d \in PeriodUpdates :
            update_period(last'.user, 1, d) =>
                /\ Untouched(d, "volume", periods[1], periods'[1])
                /\ Untouched(d, "kml_file_id", periods[1], periods'[1])
                /\ Nulled(d, "volume", periods'[1])

C24_GeoPoints ==
    (last'.op = "update_geo_point_detail" /\ last'.status = HTTP_200_OK) =>
        \A d \in GeoPointUpdates :
            update_geo_point_detail(last'.user, 1, d) =>
                /\ Untouched(d, "kilometer", geo_points[1], geo_points'[1])
                /\ Untouched(d, "period_id", geo_points[1], geo_points'[1])
                /\ Nulled(d, "kilometer", geo_points'[1])

C24_Projects ==
    (last'.op = "update_project" /\ update_project(last'.user, 1, UNSET))
        => projects' = projects

C24_Assignments ==
    (last'.op = "update_assignment" /\ update_assignment(last'.user, 1, UNSET))
        => assignments' = assignments

C24_Users ==
    (last'.op = "update_user" /\ last'.status = HTTP_200_OK) =>
        \A d \in NullableUserUpdates :
            update_user(last'.user, str("u3"), d) =>
                /\ Untouched(d, "is_active", users["u3"], users'["u3"])
                /\ ("is_active" \in DOMAIN d /\ d.is_active = None)
                      => users'["u3"].is_active \notin BOOLEAN

(* C24: on every update endpoint a field the payload leaves out is left    *)
(* untouched on the record, and a field the payload gives as null is set   *)
(* to null on the record, Period.kml_file_id excepted.                     *)
C24_PartialUpdate ==
    [][C24_Periods /\ C24_GeoPoints /\ C24_Projects /\ C24_Assignments
          /\ C24_Users]_vars

(* C24 on the handlers that go through dict(exclude_unset=True).           *)
C24_ExcludeUnset == [][C24_Periods /\ C24_GeoPoints /\ C24_Projects]_vars

(* C24 on PUT /users/{id}, absent fields only.                             *)
C24_UsersAbsent ==
    [][(last'.op = "update_user" /\ last'.status = HTTP_200_OK) =>
          \A d \in NullableUserUpdates :
              update_user(last'.user, str("u3"), d) =>
                  Untouched(d, "is_active", users["u3"], users'["u3"])]_vars

-----------------------------------------------------------------------------
C25_Step ==
    (last'.op = "update_period" /\ last'.status = HTTP_200_OK) =>
        \A d \in PeriodUpdates :
            update_period(last'.user, 1, d) =>
                /\ ("kml_file_id" \notin DOMAIN d \/ d.kml_file_id = None)
                      => periods'[1].kml_file_id = periods[1].kml_file_id
                /\ "volume" \in DOMAIN d => periods'[1].volume = Stored(d.volume)

C25_NeverCleared ==
    \A x \in DOMAIN periods :
        (last'.op = "update_period" /\ periods[x].kml_file_id # NULL)
            => /\ x \in DOMAIN periods'
               /\ periods'[x].kml_file_id # NULL

(* C25: PUT /periods/{id} with kml_file_id null or absent leaves the       *)
(* period's kml_file_id as it was and applies every other field given; a   *)
(* kml_file_id that is set is never made null by a period update.          *)
C25_KmlException == [][C25_Step /\ C25_NeverCleared]_vars

(* The period has its KML file and the volume that only the payload with   *)
(* a null kml_file_id carries, after an update that was answered 200.      *)
C25_Witness ==
    /\ last.op = "update_period"
    /\ last.status = HTTP_200_OK
    /\ periods[1].kml_file_id = 1
    /\ periods[1].volume = 2

-----------------------------------------------------------------------------
C26_Created ==
    (last'.op = "create_project" /\ last'.status = HTTP_201_CREATED) =>
        /\ DOMAIN projects' # DOMAIN projects
        /\ \A p \in DOMAIN projects' \ DOMAIN projects :
              projects'[p].owner_id = last'.user

C26_Kept ==
    \A p \in DOMAIN projects \cap DOMAIN projects' :
        projects'[p].owner_id = projects[p].owner_id

(* C26: a project created by U has owner U, and no request changes the     *)
(* owner of a project that still exists.                                   *)
C26_OwnershipFixed == [][C26_Created /\ C26_Kept]_vars

(* u3, made editor of the project u2 created, has updated it; u2 still     *)
(* owns it.                                                                *)
C26_Witness ==
    /\ last = Response("update_project", "u3", HTTP_200_OK)
    /\ 1 \in DOMAIN projects
    /\ projects[1].owner_id = "u2"
    /\ projects[1].status = "En progreso"

-----------------------------------------------------------------------------
Admins == {u \in DOMAIN users : users[u].role = "admin"}

(* The request of the step carried no token of an active global admin.     *)
WithoutAdminToken ==
    \/ last'.op \in {"register_user", "login_for_access_token"}
    \/ last'.user \notin DOMAIN users
    \/ ~users[last'.user].is_active
    \/ users[last'.user].role # "admin"

(* C27: no request made without a global admin's token adds a user record  *)
(* whose global role is admin, neither a registration nor a PUT            *)
(* /users/{id} by a non-admin.                                             *)
C27_NoAdminWithoutAdminToken ==
    [][WithoutAdminToken => Admins' \subseteq Admins]_vars

(* The half of C27 about PUT /users/{id}, on its own.                      *)
C27_UpdateCannotPromote ==
    [][(last'.op = "update_user" /\ WithoutAdminToken)
          => Admins' \subseteq Admins]_vars

-----------------------------------------------------------------------------
(* C28: every File row that has a period_id has the project_id of that     *)
(* period.                                                                 *)
C28_FileProjectMatchesPeriod ==
    \A f \in DOMAIN files :
        files[f].period_id # NULL =>
            /\ files[f].period_id \in DOMAIN periods
            /\ files[f].project_id = periods[files[f].period_id].project_id

(* C28 for the uploads that give the period only.                          *)
C28_DerivedProject ==
    [][(last'.op = "upload_file" /\ last'.status = HTTP_201_CREATED) =>
          \A x \in PeriodIds, c \in {"map", "other"}, fault \in Faults :
              upload_file(last'.user, NULL, x, c, fault) =>
                  \A f \in DOMAIN files' \ DOMAIN files :
                      /\ files'[f].project_id = periods[x].project_id
                      /\ TierEdit(last'.user, periods[x].project_id)]_vars

-----------------------------------------------------------------------------
(* C29: a geo-point comes into a period of project P only by a request of  *)
(* a user who holds the Edit tier on P.                                    *)
C29_GeoPointMoveNeedsEditOnTarget ==
    [][\A g \in DOMAIN geo_points \cap DOMAIN geo_points' :
          geo_points'[g].period_id # geo_points[g].period_id =>
              /\ last'.user \in DOMAIN users
              /\ TierEdit(last'.user, periods[geo_points'[g].period_id].project_id)]_vars

(* The half of C29 about the geo-point's current project, on its own.      *)
C29_EditOnCurrentProject ==
    [][\A g \in DOMAIN geo_points \cap DOMAIN geo_points' :
          geo_points'[g] # geo_points[g] =>
              /\ last'.user \in DOMAIN users
              /\ TierEdit(last'.user, GeoPointProject(g))]_vars

-----------------------------------------------------------------------------
(* The projects U holds the View tier on that pass the status filter.      *)
Viewable(U, status) ==
    {P \in DOMAIN projects : /\ TierView(U, P)
                             /\ status # UNSET => projects[P].status = status}

StatusFilters == {UNSET, "En progreso"}

(* C30: every project GET /projects returns to U is one U holds the View   *)
(* tier on and may GET by its identifier, and the total counts exactly the *)
(* projects U holds the View tier on that match the filter, whatever the   *)
(* global role of U.                                                       *)
C30_ListAgreesWithView ==
    [][(last'.op = "get_projects" /\ last'.status = HTTP_200_OK) =>
          \A st \in StatusFilters, skip \in Skips, limit \in Limits :
              get_projects(last'.user, st, skip, limit) =>
                  /\ \A i \in DOMAIN page'.body.items :
                        /\ page'.body.items[i] \in Viewable(last'.user, st)
                        /\ get_project_response(last'.user, page'.body.items[i])
                             = HTTP_200_OK
                  /\ page'.body.total = Cardinality(Viewable(last'.user, st))]_vars

(* The half of C30 that no viewable project is left out of the total.      *)
C30_ViewableCounted ==
    [][(last'.op = "get_projects" /\ last'.status = HTTP_200_OK) =>
          \A st \in StatusFilters, skip \in Skips, limit \in Limits :
              get_projects(last'.user, st, skip, limit) =>
                  /\ Viewable(last'.user, st) \subseteq get_projects_items(last'.user, st)
                  /\ page'.body.total >= Cardinality(Viewable(last'.user, st))]_vars

(* C30 for the global roles admin and regular.                             *)
C30_AdminAndRegular ==
    [][(/\ last'.op = "get_projects"
        /\ last'.status = HTTP_200_OK
        /\ users[last'.user].role # "manager") =>
          \A st \in StatusFilters, skip \in Skips, limit \in Limits :
              get_projects(last'.user, st, skip, limit) =>
                  /\ \A i \in DOMAIN page'.body.items :
                        get_project_response(last'.user, page'.body.items[i])
                          = HTTP_200_OK
                  /\ get_projects_items(last'.user, st) = Viewable(last'.user, st)]_vars

=============================================================================
